---- MODULE Spec2Model ----
(***************************************************************************)
(* State-machine model of the three puzzle engines of durian-games:        *)
(*   - the minesweeper state manager and engine facade,                    *)
(*   - the 2048 state manager and engine facade,                           *)
(*   - the tetris engine and its board helpers.                            *)
(* Each engine has its own specification (SpecMine, SpecTile, SpecBlock);  *)
(* the variables of the other engines stay at their initial value.         *)
(* SpecSlide applies the 2048 line and board slides to drawn inputs,       *)
(* SpecPiece applies tetris commands to drawn mid-game positions, and      *)
(* SpecSnap follows an object returned by getState() across commands.      *)
(* SpecConfig runs the minesweeper configuration commands.                 *)
(* SpecShell runs the platform's game container, whose mountGame is        *)
(* asynchronous, and SpecModule the key handling of the tetris module.     *)
(***************************************************************************)
EXTENDS Integers, Sequences, FiniteSets, TLC

VARIABLES
    ms,      \* minesweeper: the state manager's state
    mret,    \* minesweeper: what the last command returned
    ts,      \* 2048: the state manager's state and history
    tret,    \* 2048: what the last command returned
    trng,    \* 2048: the random source ("any", or "zero" when stubbed to 0)
    be,      \* tetris: the engine's fields (state, gameLoopId)
    now,     \* tetris: the value Date.now() returns
    snap,    \* the object a caller got from getState()
    pin,     \* input of a pure function under test
    pout,    \* its result
    gc       \* platform: the game container, its modules and pending loads

mineVars == <<ms, mret>>
tileVars == <<ts, tret, trng>>
blockVars == <<be, now>>
pureVars == <<pin, pout>>
shellVars == <<gc>>
vars == <<ms, mret, ts, tret, trng, be, now, snap, pin, pout, gc>>

\* The value of an engine's variables in the specifications of the others.
MineOff == ms = [status |-> "off"] /\ mret = "none"
NoRet == [kind |-> "none"]
TileOff == ts = [status |-> "off"] /\ tret = NoRet /\ trng = "any"
BlockOff == be = [state |-> [status |-> "off"], gameLoopId |-> "null"] /\ now = 0
PureOff == pin = [kind |-> "none"] /\ pout = [kind |-> "none"]
NoSnap == [taken |-> FALSE]
ShellOff == gc = [currentGame |-> "off"]

\* getState() is { ...this.state }: the top-level fields are copied, the
\* board is the engine's own array until the engine replaces its board.
\* view is what the caller reads through the returned object.
TakeSnap(state) == [taken |-> TRUE, shared |-> TRUE, view |-> state]

\* The returned object after an engine command: a command that writes the
\* board in place is seen through a shared board, one that installs a new
\* board leaves the caller with the old one.
Follow(s, newBoard, replaced) ==
    IF ~s.taken THEN s
    ELSE IF ~s.shared THEN s
    ELSE IF replaced THEN [s EXCEPT !.shared = FALSE]
    ELSE [s EXCEPT !.view.board = newBoard]

Min(a, b) == IF a < b THEN a ELSE b
Max(a, b) == IF a > b THEN a ELSE b

(***************************************************************************)
(*                              MINESWEEPER                                *)
(***************************************************************************)

\* Most flags the player places at one time.
MaxFlags == 2

\* Configurations handed to the constructor.
CtorConfigs ==
    { [rows |-> 2, cols |-> 4, mines |-> 1],
      [rows |-> 3, cols |-> 3, mines |-> 2] }

Cells(config) == (0 .. config.rows - 1) \X (0 .. config.cols - 1)

Abs(x) == IF x < 0 THEN -x ELSE x

\* createEmptyBoard: every cell hidden, no mine, count 0.
createEmptyBoard(config) ==
    [p \in Cells(config) |->
        [isMine |-> FALSE, neighborMines |-> 0, state |-> "hidden"]]

createInitialState(config) ==
    [status |-> "idle",
     board |-> createEmptyBoard(config),
     config |-> config,
     remainingMines |-> config.mines,
     flaggedMines |-> 0,
     revealedCells |-> 0]

\* A variant that keeps only the clicked cell free of mines.
availableCellsButClicked(config, excludeRow, excludeCol) ==
    { p \in Cells(config) : ~(p[1] = excludeRow /\ p[2] = excludeCol) }

\* The cells placeMines may choose from: all but the clicked cell and its
\* neighbours.
availableCells(config, excludeRow, excludeCol) ==
    { p \in Cells(config) :
        ~(Abs(p[1] - excludeRow) <= 1 /\ Abs(p[2] - excludeCol) <= 1) }

RECURSIVE KSubsets(_, _)
\* All subsets of S with exactly k elements.
KSubsets(S, k) ==
    IF k = 0 THEN {{}}
    ELSE IF k > Cardinality(S) THEN {}
    ELSE LET x == CHOOSE y \in S : TRUE
         IN  { T \cup {x} : T \in KSubsets(S \ {x}, k - 1) }
                \cup KSubsets(S \ {x}, k)

\* shuffleArray(availableCells).slice(0, mines): any set of
\* min(mines, available) available cells.
minePositions(config, excludeRow, excludeCol) ==
    LET avail == availableCells(config, excludeRow, excludeCol)
    IN  KSubsets(avail, Min(config.mines, Cardinality(avail)))

placeMines(st, positions) ==
    [st EXCEPT !.board =
        [p \in DOMAIN st.board |->
            IF p \in positions
            THEN [st.board[p] EXCEPT !.isMine = TRUE]
            ELSE st.board[p]]]

\* The neighbours of (row, col) in the order of the two clamped loops.
Offsets8 ==
    << <<-1, -1>>, <<-1, 0>>, <<-1, 1>>, <<0, -1>>,
       <<0, 1>>, <<1, -1>>, <<1, 0>>, <<1, 1>> >>

InBoard(config, p) ==
    /\ p[1] >= 0 /\ p[1] <= config.rows - 1
    /\ p[2] >= 0 /\ p[2] <= config.cols - 1

NeighborSeq(config, row, col) ==
    LET all == [i \in 1 .. 8 |-> <<row + Offsets8[i][1], col + Offsets8[i][2]>>]
    IN  SelectSeq(all, LAMBDA p : InBoard(config, p))

NeighborSet(config, row, col) ==
    { NeighborSeq(config, row, col)[i] :
        i \in 1 .. Len(NeighborSeq(config, row, col)) }

countNeighborMines(st, row, col) ==
    Cardinality({ p \in NeighborSet(st.config, row, col) : st.board[p].isMine })

calculateNeighborMines(st) ==
    [st EXCEPT !.board =
        [p \in DOMAIN st.board |->
            IF st.board[p].isMine
            THEN st.board[p]
            ELSE [st.board[p] EXCEPT
                     !.neighborMines = countNeighborMines(st, p[1], p[2])]]]

initializeGame(st, firstClickRow, firstClickCol, positions) ==
    IF st.status # "idle" THEN st
    ELSE [calculateNeighborMines(placeMines(st, positions))
             EXCEPT !.status = "playing"]

\* A variant that turns the flagged mines over as well.
revealAllMinesFlagged(st) ==
    [st EXCEPT !.board =
        [p \in DOMAIN st.board |->
            IF st.board[p].isMine
            THEN [st.board[p] EXCEPT !.state = "revealed"]
            ELSE st.board[p]]]

revealAllMines(st) ==
    [st EXCEPT !.board =
        [p \in DOMAIN st.board |->
            IF st.board[p].isMine /\ st.board[p].state # "flagged"
            THEN [st.board[p] EXCEPT !.state = "revealed"]
            ELSE st.board[p]]]

checkWinCondition(st) ==
    LET totalSafeCells == st.config.rows * st.config.cols - st.config.mines
    IN  IF st.revealedCells = totalSafeCells
        THEN [st EXCEPT !.status = "won"]
        ELSE st

\* The listeners registered with addListener, in the order of registration.
Listeners == <<"first", "second">>

\* notifyListeners, added to the notifications made so far: every listener
\* in turn is handed the state as it is at that moment.
notifyListeners(st, notes) ==
    notes \o [i \in 1 .. Len(Listeners) |->
                 [listener |-> Listeners[i], state |-> st]]

\* revealCell and revealNeighbors call each other.  The calls in progress
\* are kept as an explicit stack of revealNeighbors loops, innermost first:
\* each frame holds the neighbours of a revealed blank cell in loop order and
\* the index of the next one to visit.  notes are the notifications made
\* since the command began.

\* revealCell from "cell.state = revealed" on, for a hidden cell of a game
\* in progress: a mine ends the game, a blank cell opens a revealNeighbors
\* loop (checkWinCondition follows when the loop ends), any other cell is
\* followed by checkWinCondition at once; a call of revealCell ends with
\* notifyListeners.
revealHidden(st, p, stack, notes) ==
    LET s1 == [st EXCEPT !.board[p].state = "revealed",
                         !.revealedCells = @ + 1]
        lost == revealAllMines([s1 EXCEPT !.status = "lost"])
    IN  IF s1.board[p].isMine
        THEN [st |-> lost, stack |-> stack,
              notes |-> notifyListeners(lost, notes)]
        ELSE IF s1.board[p].neighborMines = 0
        THEN [st |-> s1,
              stack |-> <<[nbrs |-> NeighborSeq(s1.config, p[1], p[2]),
                           i |-> 1]>> \o stack,
              notes |-> notes]
        ELSE [st |-> checkWinCondition(s1), stack |-> stack,
              notes |-> notifyListeners(checkWinCondition(s1), notes)]

\* One step of the innermost revealNeighbors loop: visit its next neighbour
\* (revealCell returns at once in a finished game or on a cell that is not
\* hidden), or end the loop and run the checkWinCondition and the
\* notifyListeners of the revealCell that opened it.
revealNeighborsStep(m) ==
    IF m.stack = <<>> THEN m
    ELSE LET top == Head(m.stack)
             rest == Tail(m.stack)
         IN  IF top.i > Len(top.nbrs)
             THEN [st |-> checkWinCondition(m.st), stack |-> rest,
                   notes |-> notifyListeners(checkWinCondition(m.st), m.notes)]
             ELSE LET p == top.nbrs[top.i]
                      next == <<[top EXCEPT !.i = @ + 1]>> \o rest
                  IN  IF \/ m.st.board[p].state # "hidden"
                         \/ m.st.status \in {"won", "lost"}
                      THEN [m EXCEPT !.stack = next]
                      ELSE revealHidden(m.st, p, next, m.notes)

RECURSIVE revealNeighbors(_, _)
\* At most n steps of the open loops, stopping when none is left.
revealNeighbors(m, n) ==
    IF n = 0 \/ m.stack = <<>> THEN m
    ELSE IF n = 1 THEN revealNeighborsStep(m)
    ELSE revealNeighbors(revealNeighbors(m, n \div 2), n - n \div 2)

\* Every cell opens at most one loop, of at most eight visits and its end.
CascadeSteps(config) == 9 * config.rows * config.cols

\* revealCell with the notifications it makes, those of initializeGame
\* first; ret is "true", "false", or "threw" when indexing the board raised
\* a TypeError.
revealCellNotified(st, row, col, positions) ==
    IF st.status \in {"won", "lost"}
    THEN [st |-> st, ret |-> "false", notes |-> <<>>]
    ELSE IF ~InBoard(st.config, <<row, col>>)
    THEN [st |-> st, ret |-> "threw", notes |-> <<>>]
    ELSE IF st.board[<<row, col>>].state # "hidden"
    THEN [st |-> st, ret |-> "false", notes |-> <<>>]
    ELSE
      LET s0 == IF st.status = "idle"
                THEN initializeGame(st, row, col, positions)
                ELSE st
          notes0 == IF st.status = "idle"
                    THEN notifyListeners(s0, <<>>) ELSE <<>>
          m == revealHidden(s0, <<row, col>>, <<>>, notes0)
          end == revealNeighbors(m, CascadeSteps(st.config))
      IN  [st |-> end.st, ret |-> "true", notes |-> end.notes]

\* revealCell returns the new state and what the call returned.
revealCell(st, row, col, positions) ==
    LET r == revealCellNotified(st, row, col, positions)
    IN  [st |-> r.st, ret |-> r.ret]

\* A variant that passes through the questioned state on the way back.
toggleFlagCycle(st, row, col) ==
    IF st.status \in {"won", "lost"} THEN [st |-> st, ret |-> "false"]
    ELSE IF ~InBoard(st.config, <<row, col>>) THEN [st |-> st, ret |-> "threw"]
    ELSE LET cell == st.board[<<row, col>>]
         IN  IF cell.state = "revealed" THEN [st |-> st, ret |-> "false"]
             ELSE IF cell.state = "hidden"
                  THEN [st |-> [st EXCEPT
                                   !.board[<<row, col>>].state = "flagged",
                                   !.flaggedMines = @ + 1,
                                   !.remainingMines = @ - 1],
                        ret |-> "true"]
             ELSE IF cell.state = "flagged"
                  THEN [st |-> [st EXCEPT
                                   !.board[<<row, col>>].state = "questioned",
                                   !.flaggedMines = @ - 1,
                                   !.remainingMines = @ + 1],
                        ret |-> "true"]
             ELSE [st |-> [st EXCEPT !.board[<<row, col>>].state = "hidden"],
                   ret |-> "true"]

\* A variant without the test of the status.
toggleFlagAnyStatus(st, row, col) ==
    IF ~InBoard(st.config, <<row, col>>) THEN [st |-> st, ret |-> "threw"]
    ELSE LET cell == st.board[<<row, col>>]
         IN  IF cell.state = "revealed" THEN [st |-> st, ret |-> "false"]
             ELSE IF cell.state = "hidden"
                  THEN [st |-> [st EXCEPT
                                   !.board[<<row, col>>].state = "flagged",
                                   !.flaggedMines = @ + 1,
                                   !.remainingMines = @ - 1],
                        ret |-> "true"]
             ELSE [st |-> [st EXCEPT
                              !.board[<<row, col>>].state = "hidden",
                              !.flaggedMines = @ - 1,
                              !.remainingMines = @ + 1],
                   ret |-> "true"]

toggleFlag(st, row, col) ==
    IF st.status \in {"won", "lost"} THEN [st |-> st, ret |-> "false"]
    ELSE IF ~InBoard(st.config, <<row, col>>) THEN [st |-> st, ret |-> "threw"]
    ELSE LET cell == st.board[<<row, col>>]
         IN  IF cell.state = "revealed" THEN [st |-> st, ret |-> "false"]
             ELSE IF cell.state = "hidden"
                  THEN [st |-> [st EXCEPT
                                   !.board[<<row, col>>].state = "flagged",
                                   !.flaggedMines = @ + 1,
                                   !.remainingMines = @ - 1],
                        ret |-> "true"]
             ELSE IF cell.state = "flagged"
                  THEN [st |-> [st EXCEPT
                                   !.board[<<row, col>>].state = "hidden",
                                   !.flaggedMines = @ - 1,
                                   !.remainingMines = @ + 1],
                        ret |-> "true"]
             ELSE [st |-> st, ret |-> "true"]

\* canAutoReveal: "true", "false" or "threw".
canAutoReveal(st, row, col) ==
    IF ~InBoard(st.config, <<row, col>>) THEN "threw"
    ELSE LET cell == st.board[<<row, col>>]
             flaggedCount ==
                 Cardinality({ p \in NeighborSet(st.config, row, col) :
                                 st.board[p].state = "flagged" })
         IN  IF cell.state # "revealed" \/ cell.neighborMines = 0 THEN "false"
             ELSE IF flaggedCount = cell.neighborMines THEN "true"
             ELSE "false"

RECURSIVE autoRevealLoop(_, _, _, _, _)
\* The loop of autoRevealNeighbors from its i-th neighbour on; revealed is
\* the loop's flag, notes the notifications made so far.
autoRevealLoop(st, nbrs, i, revealed, notes) ==
    IF i > Len(nbrs)
    THEN [st |-> st, ret |-> IF revealed THEN "true" ELSE "false",
          notes |-> notes]
    ELSE LET p == nbrs[i]
         IN  IF st.board[p].state = "hidden"
             THEN LET r == revealCellNotified(st, p[1], p[2], {})
                  IN  autoRevealLoop(r.st, nbrs, i + 1, TRUE,
                                     notes \o r.notes)
             ELSE autoRevealLoop(st, nbrs, i + 1, revealed, notes)

\* autoRevealNeighbors with the notifications it causes.
autoRevealNeighborsNotified(st, row, col) ==
    LET can == canAutoReveal(st, row, col)
    IN  IF can = "threw" THEN [st |-> st, ret |-> "threw", notes |-> <<>>]
        ELSE IF can = "false"
        THEN [st |-> st, ret |-> "false", notes |-> <<>>]
        ELSE autoRevealLoop(st, NeighborSeq(st.config, row, col), 1, FALSE,
                            <<>>)

autoRevealNeighbors(st, row, col) ==
    LET r == autoRevealNeighborsNotified(st, row, col)
    IN  [st |-> r.st, ret |-> r.ret]

\* MinesweeperGame.handleGameEnd: one scoreManager.saveScore call, added to
\* the calls made so far.
handleGameEnd(saves, state) ==
    IF state.status = "won" THEN Append(saves, [status |-> "won"])
    ELSE IF state.status = "lost" THEN Append(saves, [status |-> "lost"])
    ELSE saves

\* MinesweeperGame.handleGameStateChange, the body of the module's callback.
handleGameStateChange(saves, state) ==
    IF state.status = "won" \/ state.status = "lost"
    THEN handleGameEnd(saves, state)
    ELSE saves

RECURSIVE moduleCallback(_, _)
\* The module's callback, the first listener registered, run on each of its
\* notifications in turn.
moduleCallback(notes, saves) ==
    IF notes = <<>> THEN saves
    ELSE moduleCallback(Tail(notes),
             IF Head(notes).listener = Listeners[1]
             THEN handleGameStateChange(saves, Head(notes).state)
             ELSE saves)

\* ---- commands ----------------------------------------------------------

\* Coordinates a caller may pass: every cell, and positions one step outside
\* the board on each side.
OutOfRange(config) ==
    { <<-1, 0>>, <<config.rows, 0>>, <<0, -1>>, <<0, config.cols>> }

CoordInputs == Cells(ms.config) \cup OutOfRange(ms.config)

FlagAllowed(row, col) ==
    ~(/\ InBoard(ms.config, <<row, col>>)
      /\ ms.board[<<row, col>>].state = "hidden"
      /\ ms.flaggedMines >= MaxFlags)

MineInit ==
    /\ \E config \in CtorConfigs : ms = createInitialState(config)
    /\ mret = "none"
    /\ snap = NoSnap
    /\ ShellOff
    /\ TileOff /\ BlockOff /\ PureOff

leftClick(row, col) ==
    /\ \E positions \in
           (IF ms.status = "idle" /\ InBoard(ms.config, <<row, col>>)
            THEN minePositions(ms.config, row, col) ELSE {{}}) :
         LET r == revealCell(ms, row, col, positions)
         IN  /\ ms' = r.st
             /\ mret' = r.ret
    /\ snap' = Follow(snap, ms'.board, FALSE)
    /\ UNCHANGED <<gc, tileVars, blockVars, pureVars>>

rightClick(row, col) ==
    /\ FlagAllowed(row, col)
    /\ LET r == toggleFlag(ms, row, col)
       IN  /\ ms' = r.st
           /\ mret' = r.ret
    /\ snap' = Follow(snap, ms'.board, FALSE)
    /\ UNCHANGED <<gc, tileVars, blockVars, pureVars>>

middleClick(row, col) ==
    /\ LET r == autoRevealNeighbors(ms, row, col)
       IN  /\ ms' = r.st
           /\ mret' = r.ret
    /\ snap' = Follow(snap, ms'.board, FALSE)
    /\ UNCHANGED <<gc, tileVars, blockVars, pureVars>>

restart ==
    /\ ms' = createInitialState(ms.config)
    /\ mret' = "none"
    /\ snap' = Follow(snap, ms'.board, TRUE)
    /\ UNCHANGED <<gc, tileVars, blockVars, pureVars>>

MineLeftClick == \E p \in CoordInputs : leftClick(p[1], p[2])
MineRightClick == \E p \in CoordInputs : rightClick(p[1], p[2])
MineMiddleClick == \E p \in CoordInputs : middleClick(p[1], p[2])
MineRestart == restart

MineNext ==
    \/ MineLeftClick
    \/ MineRightClick
    \/ MineMiddleClick
    \/ MineRestart

SpecMine == MineInit /\ [][MineNext]_vars

\* ---- minesweeper properties ---------------------------------------------

MineCells(st) == { p \in DOMAIN st.board : st.board[p].isMine }

Around(config, p) ==
    { q \in Cells(config) : Abs(q[1] - p[1]) <= 1 /\ Abs(q[2] - p[2]) <= 1 }

\* C1: a first reveal (one made in status idle) of a hidden cell leaves no
\* mine on the clicked cell or on any of its neighbours, and does not lose,
\* whichever mine positions the shuffle yields.
C1_FirstRevealSafe ==
    ms.status = "idle" =>
        \A p \in Cells(ms.config) :
          \A positions \in minePositions(ms.config, p[1], p[2]) :
            LET r == revealCell(ms, p[1], p[2], positions)
            IN  r.ret = "true" =>
                  /\ \A q \in Around(ms.config, p) : ~r.st.board[q].isMine
                  /\ r.st.status # "lost"

\* A game whose first reveal has just placed all the configured mines.
C1_Witness ==
    /\ ms.status = "playing"
    /\ mret = "true"
    /\ ms.revealedCells >= 1
    /\ Cardinality(MineCells(ms)) = ms.config.mines

RevealedSafe(st) ==
    { p \in DOMAIN st.board :
        st.board[p].state = "revealed" /\ ~st.board[p].isMine }

UnrevealedSafe(st) ==
    { p \in DOMAIN st.board :
        st.board[p].state # "revealed" /\ ~st.board[p].isMine }

\* C4: status is won exactly when the number of revealed non-mine cells is
\* rows*cols - mines, and never while a non-mine cell is hidden or flagged.
C4_WonIffAllSafeRevealed ==
    /\ ms.status = "won" <=>
         Cardinality(RevealedSafe(ms)) =
            ms.config.rows * ms.config.cols - ms.config.mines
    /\ ms.status = "won" => UnrevealedSafe(ms) = {}

\* C9: reveal, toggleFlag and autoRevealNeighbors called with a coordinate
\* outside the board return false and leave the state unchanged.
C9_OutOfRangeIsNoOp ==
    \A p \in OutOfRange(ms.config) :
        /\ revealCell(ms, p[1], p[2], {}) = [st |-> ms, ret |-> "false"]
        /\ toggleFlag(ms, p[1], p[2]) = [st |-> ms, ret |-> "false"]
        /\ autoRevealNeighbors(ms, p[1], p[2]) = [st |-> ms, ret |-> "false"]

\* C11: no cell is a mine before the first reveal of a game, and from the
\* first reveal on exactly config.mines cells are mines.
C11_FirstRevealPlacesAllMines ==
    /\ ms.status = "idle" => MineCells(ms) = {}
    /\ ms.status # "idle" => Cardinality(MineCells(ms)) = ms.config.mines

\* A cell without a mine on it or next to it.
Blank(st, p) == ~st.board[p].isMine /\ st.board[p].neighborMines = 0

RECURSIVE Spread(_, _)
\* The least set of cells that holds S and, with each blank cell, all of
\* its neighbours.
Spread(st, S) ==
    LET next == S \cup { q \in DOMAIN st.board :
                            \E p \in S : Blank(st, p)
                                          /\ q \in NeighborSet(st.config, p[1], p[2]) }
    IN  IF next = S THEN S ELSE Spread(st, next)

\* The connected region of blank cells that holds p, with the cells that
\* border it.
FloodRegion(st, p) == Spread(st, {p})

\* The reveal of p that led from st to r revealed exactly the flood region
\* of p, each of its cells once, and changed no other cell.
FloodExact(st, p, r) ==
    /\ r.ret = "true"
    /\ \A q \in DOMAIN st.board :
          r.st.board[q].state =
              IF q \in FloodRegion(st, p) THEN "revealed" ELSE st.board[q].state
    /\ r.st.revealedCells =
          st.revealedCells
            + Cardinality({ q \in FloodRegion(st, p) : st.board[q].state # "revealed" })

\* C23: the reveal of a hidden cell with no mine on it or next to it ends
\* and leaves revealed exactly the connected region of such cells around
\* it and the cells bordering that region, each revealed once, and no other
\* cell changes.
C23_FloodRevealsRegion ==
    /\ ms.status = "playing" =>
          \A p \in Cells(ms.config) :
            (ms.board[p].state = "hidden" /\ Blank(ms, p)) =>
                FloodExact(ms, p, revealCell(ms, p[1], p[2], {}))
    /\ ms.status = "idle" =>
          \A p \in Cells(ms.config) :
            ms.board[p].state = "hidden" =>
              \A positions \in minePositions(ms.config, p[1], p[2]) :
                FloodExact(initializeGame(ms, p[1], p[2], positions), p,
                           revealCell(ms, p[1], p[2], positions))

\* C24: in status idle or playing, toggleFlag on a hidden cell flags it and
\* toggleFlag on it again leaves the state as it was before the first, the
\* cell hidden and remainingMines and flaggedMines restored; no cell is ever
\* in the questioned state.
C24_DoubleToggleRestores ==
    ms.status # "off" =>
        /\ \A p \in Cells(ms.config) : ms.board[p].state # "questioned"
        /\ ms.status \in {"idle", "playing"} =>
              \A p \in Cells(ms.config) :
                ms.board[p].state = "hidden" =>
                  LET once == toggleFlag(ms, p[1], p[2])
                      twice == toggleFlag(once.st, p[1], p[2])
                  IN  /\ once.ret = "true" /\ twice.ret = "true"
                      /\ once.st.board[p].state = "flagged"
                      /\ once.st.remainingMines = ms.remainingMines - 1
                      /\ once.st.flaggedMines = ms.flaggedMines + 1
                      /\ twice.st.board[p].state = "hidden"
                      /\ twice.st.remainingMines = ms.remainingMines
                      /\ twice.st.flaggedMines = ms.flaggedMines
                      /\ twice.st = ms

\* Before any reveal a flag has been placed and taken off again.
C24_Witness ==
    /\ ms.status = "idle"
    /\ mret = "true"
    /\ ms.flaggedMines = 0
    /\ ms.remainingMines = ms.config.mines

\* C25: in status won or lost, reveal, toggleFlag and autoRevealNeighbors,
\* whatever the coordinates, leave every cell, the counters and the status
\* as they are (the timestamps and the score are written only by the steps
\* that change the status), and restart leaves a game in status idle.
C25_TerminalIsFrozen ==
    ms.status \in {"won", "lost"} =>
        /\ \A p \in CoordInputs :
              /\ revealCell(ms, p[1], p[2], {}).st = ms
              /\ toggleFlag(ms, p[1], p[2]).st = ms
              /\ autoRevealNeighbors(ms, p[1], p[2]).st = ms
        /\ \A p \in Cells(ms.config) :
              /\ revealCell(ms, p[1], p[2], {}).ret = "false"
              /\ toggleFlag(ms, p[1], p[2]).ret = "false"
        /\ createInitialState(ms.config).status = "idle"

\* A command has been rejected in a lost game that still has a hidden cell
\* without a mine and a flagged cell.
C25_Witness ==
    /\ ms.status = "lost"
    /\ mret = "false"
    /\ \E p \in Cells(ms.config) :
          ms.board[p].state = "hidden" /\ ~ms.board[p].isMine
    /\ \E p \in Cells(ms.config) : ms.board[p].state = "flagged"

\* C29: a reveal that returns false notifies no one, and a reveal that
\* returns true notifies every listener exactly once, in the order of
\* registration, each with the state the command leaves: no listener is
\* handed a state from the middle of the command.
C29_RevealNotifiesOnceAtEnd ==
    ms.status # "off" =>
        \A p \in Cells(ms.config) :
          \A positions \in (IF ms.status = "idle"
                             THEN minePositions(ms.config, p[1], p[2])
                             ELSE {{}}) :
            LET r == revealCellNotified(ms, p[1], p[2], positions)
            IN  /\ r.ret # "true" => r.notes = <<>>
                /\ r.ret = "true" =>
                      r.notes = [i \in 1 .. Len(Listeners) |->
                                    [listener |-> Listeners[i], state |-> r.st]]

\* The cells autoRevealNeighbors is meant to act on: revealed, numbered, and
\* with as many flagged neighbours as the number says.
Chordable(st, p) ==
    /\ InBoard(st.config, p)
    /\ st.board[p].state = "revealed"
    /\ st.board[p].neighborMines >= 1
    /\ Cardinality({ q \in NeighborSet(st.config, p[1], p[2]) :
                        st.board[q].state = "flagged" })
          = st.board[p].neighborMines

\* C31: autoRevealNeighbors(r, c) on a revealed numbered cell with exactly
\* that many flagged neighbours leaves none of the cell's neighbours hidden
\* and touches no flag; with any other argument it returns false and leaves
\* the state as it is.
C31_AutoRevealOnlyWhenSatisfied ==
    ms.status # "off" =>
        \A p \in CoordInputs :
            LET r == autoRevealNeighbors(ms, p[1], p[2])
            IN  IF Chordable(ms, p)
                THEN \A q \in NeighborSet(ms.config, p[1], p[2]) :
                        /\ r.st.board[q].state # "hidden"
                        /\ ms.board[q].state = "flagged"
                              => r.st.board[q].state = "flagged"
                ELSE r = [st |-> ms, ret |-> "false"]

\* C32: a reveal of a hidden mine in a running game returns true and leaves
\* the game lost (not won), every mine without a flag revealed, every
\* flagged cell flagged, every cell without a mine as visible as it was and
\* the flag counters as they were.
C32_MineHitLoses ==
    ms.status = "playing" =>
        \A p \in Cells(ms.config) :
            (ms.board[p].isMine /\ ms.board[p].state = "hidden") =>
                LET r == revealCell(ms, p[1], p[2], {})
                IN  /\ r.ret = "true"
                    /\ r.st.status = "lost"
                    /\ \A q \in Cells(ms.config) :
                          /\ r.st.board[q].isMine = ms.board[q].isMine
                          /\ (ms.board[q].isMine /\ ms.board[q].state # "flagged")
                                => r.st.board[q].state = "revealed"
                          /\ ms.board[q].state = "flagged"
                                => r.st.board[q].state = "flagged"
                          /\ ~ms.board[q].isMine
                                => r.st.board[q].state = ms.board[q].state
                    /\ r.st.flaggedMines = ms.flaggedMines
                    /\ r.st.remainingMines = ms.remainingMines
                    /\ r.st.revealedCells = ms.revealedCells + 1

\* A game just lost on a mine while another mine carried a flag and a cell
\* without a mine was still hidden.
C32_Witness ==
    /\ ms.status = "lost"
    /\ mret = "true"
    /\ \E p \in Cells(ms.config) :
          ms.board[p].isMine /\ ms.board[p].state = "flagged"
    /\ \E p \in Cells(ms.config) :
          ms.board[p].isMine /\ ms.board[p].state = "revealed"
    /\ \E p \in Cells(ms.config) :
          ~ms.board[p].isMine /\ ms.board[p].state = "hidden"

\* C37: a reveal or an auto-reveal that takes the game from idle or playing
\* to won or lost causes exactly one saveScore call, and one that leaves the
\* game running causes none.
C37_OneSavePerFinishedGame ==
    ms.status \in {"idle", "playing"} =>
        \A p \in Cells(ms.config) :
            /\ \A positions \in (IF ms.status = "idle"
                                  THEN minePositions(ms.config, p[1], p[2])
                                  ELSE {{}}) :
                  LET r == revealCellNotified(ms, p[1], p[2], positions)
                  IN  Len(moduleCallback(r.notes, <<>>)) =
                         (IF r.st.status \in {"won", "lost"} THEN 1 ELSE 0)
            /\ LET r == autoRevealNeighborsNotified(ms, p[1], p[2])
               IN  Len(moduleCallback(r.notes, <<>>)) =
                      (IF r.st.status \in {"won", "lost"} THEN 1 ELSE 0)

\* ---- the configuration commands -----------------------------------------

DIFFICULTY_CONFIGS ==
    [beginner |-> [rows |-> 9, cols |-> 9, mines |-> 10],
     intermediate |-> [rows |-> 16, cols |-> 16, mines |-> 40],
     expert |-> [rows |-> 16, cols |-> 30, mines |-> 99]]

\* Math.floor(n * 0.8) for an integer n.
FloorFourFifths(n) == (4 * n) \div 5

\* The config setCustomConfig builds: the mine limit is computed from the
\* arguments, rows and cols are clamped afterwards.
customConfig(rows, cols, mines) ==
    LET maxMines == FloorFourFifths(rows * cols)
        validMines == Min(Max(1, mines), maxMines)
    IN  [rows |-> Max(5, Min(50, rows)),
         cols |-> Max(5, Min(50, cols)),
         mines |-> validMines]

\* reset(config): a fresh state for the given config.
reset(config) == createInitialState(config)

\* Arguments a caller passes to setCustomConfig.
ArgSizes == {-1, 1, 5, 6, 51}
ArgMines == {-1, 0, 1, 20, 25, 2100}

\* The engine as its constructor leaves it without an argument.  pin keeps
\* the arguments of the last configuration command.
ConfigInit ==
    /\ ms = createInitialState(DIFFICULTY_CONFIGS.beginner)
    /\ mret = "none"
    /\ pin = [kind |-> "none"]
    /\ pout = [kind |-> "none"]
    /\ snap = NoSnap
    /\ ShellOff
    /\ TileOff /\ BlockOff

setCustomConfig(rows, cols, mines) ==
    /\ ms' = reset(customConfig(rows, cols, mines))
    /\ mret' = "none"
    /\ pin' = [kind |-> "config", rows |-> rows, cols |-> cols, mines |-> mines]
    /\ UNCHANGED <<gc, pout, snap, tileVars, blockVars>>

changeDifficulty(difficulty) ==
    /\ ms' = reset(DIFFICULTY_CONFIGS[difficulty])
    /\ mret' = "none"
    /\ pin' = [kind |-> "difficulty", difficulty |-> difficulty]
    /\ UNCHANGED <<gc, pout, snap, tileVars, blockVars>>

ConfigSetCustomConfig ==
    \E rows \in ArgSizes, cols \in ArgSizes, mines \in ArgMines :
        setCustomConfig(rows, cols, mines)
ConfigChangeDifficulty ==
    \E difficulty \in DOMAIN DIFFICULTY_CONFIGS : changeDifficulty(difficulty)
ConfigRestart ==
    /\ ms' = reset(ms.config)
    /\ mret' = "none"
    /\ pin' = [kind |-> "restart"]
    /\ UNCHANGED <<gc, pout, snap, tileVars, blockVars>>

ConfigNext ==
    \/ ConfigSetCustomConfig
    \/ ConfigChangeDifficulty
    \/ ConfigRestart

SpecConfig == ConfigInit /\ [][ConfigNext]_vars

\* C12: the config setCustomConfig installs has rows and cols in 5..50 and
\* mines between 1 and floor(rows * cols * 0.8) of the installed rows and
\* cols, hence more than 0 and fewer than rows * cols mines.
C12_CustomConfigInRange ==
    pin.kind = "config" =>
        /\ ms.config.rows \in 5 .. 50
        /\ ms.config.cols \in 5 .. 50
        /\ ms.config.mines >= 1
        /\ ms.config.mines <= FloorFourFifths(ms.config.rows * ms.config.cols)
        /\ ms.config.mines < ms.config.rows * ms.config.cols

(***************************************************************************)
(*                                  2048                                   *)
(* The isNew/isMerged rendering flags, the timestamps and the best score   *)
(* and best tile kept in localStorage are not modelled.                    *)
(***************************************************************************)

\* The GameConfig handed to the constructor of the engine under test.
TileConfig == [boardSize |-> 2, winTarget |-> 8, initialCells |-> 2]
BoardSize == TileConfig.boardSize
WinTarget == TileConfig.winTarget

\* Most successful moves of one game, with the free and with the stubbed
\* random source.
MaxMoves == 3
MaxMovesZero == 12

\* The history keeps this many entries.
HistoryLimit == 10

Directions == {"left", "right", "up", "down"}

TPos(size) == (0 .. size - 1) \X (0 .. size - 1)

Reverse(s) == [i \in 1 .. Len(s) |-> s[Len(s) + 1 - i]]

RECURSIVE mergeLoopTriple(_, _, _)
\* A variant in which two equal tiles merge into three times their value.
mergeLoopTriple(newLine, i, score) ==
    IF i >= Len(newLine) - 1 THEN [newLine |-> newLine, score |-> score]
    ELSE IF newLine[i + 1] = newLine[i + 2]
         THEN mergeLoopTriple([newLine EXCEPT ![i + 1] = 3 * @, ![i + 2] = 0],
                              i + 1, score + 2 * newLine[i + 1])
         ELSE mergeLoopTriple(newLine, i + 1, score)

RECURSIVE mergeLoop(_, _, _)
\* The merging loop of mergeLine from index i (0-based) on.
mergeLoop(newLine, i, score) ==
    IF i >= Len(newLine) - 1 THEN [newLine |-> newLine, score |-> score]
    ELSE IF newLine[i + 1] = newLine[i + 2]
         THEN mergeLoop([newLine EXCEPT ![i + 1] = 2 * @, ![i + 2] = 0],
                        i + 1, score + 2 * newLine[i + 1])
         ELSE mergeLoop(newLine, i + 1, score)

\* A variant that does not close the gaps the merges leave.
mergeLineNoCompact(line) ==
    LET filtered == SelectSeq(line, LAMBDA val : val # 0)
        merged == mergeLoop(filtered, 0, 0)
    IN  [newLine |-> merged.newLine
                       \o [i \in 1 .. Len(line) - Len(merged.newLine) |-> 0],
         score |-> merged.score]

mergeLine(line) ==
    LET filtered == SelectSeq(line, LAMBDA val : val # 0)
        merged == mergeLoop(filtered, 0, 0)
        result == SelectSeq(merged.newLine, LAMBDA val : val # 0)
    IN  [newLine |-> result \o [i \in 1 .. Len(line) - Len(result) |-> 0],
         score |-> merged.score]

RECURSIVE SumSeq(_)
SumSeq(s) == IF s = <<>> THEN 0 ELSE Head(s) + SumSeq(Tail(s))

\* moveLeft .. moveDown return the new board and the score increase.
moveLeft(board, size) ==
    LET res == [row \in 0 .. size - 1 |->
                   mergeLine([col \in 1 .. size |-> board[<<row, col - 1>>]])]
    IN  [board |-> [p \in TPos(size) |-> res[p[1]].newLine[p[2] + 1]],
         scoreIncrease |-> SumSeq([k \in 1 .. size |-> res[k - 1].score])]

moveRight(board, size) ==
    LET res == [row \in 0 .. size - 1 |->
                   mergeLine(Reverse(
                       [col \in 1 .. size |-> board[<<row, col - 1>>]]))]
    IN  [board |-> [p \in TPos(size) |->
                       Reverse(res[p[1]].newLine)[p[2] + 1]],
         scoreIncrease |-> SumSeq([k \in 1 .. size |-> res[k - 1].score])]

moveUp(board, size) ==
    LET res == [col \in 0 .. size - 1 |->
                   mergeLine([row \in 1 .. size |-> board[<<row - 1, col>>]])]
    IN  [board |-> [p \in TPos(size) |-> res[p[2]].newLine[p[1] + 1]],
         scoreIncrease |-> SumSeq([k \in 1 .. size |-> res[k - 1].score])]

moveDown(board, size) ==
    LET res == [col \in 0 .. size - 1 |->
                   mergeLine([k \in 1 .. size |-> board[<<size - k, col>>]])]
    IN  [board |-> [p \in TPos(size) |->
                       res[p[2]].newLine[(size - 1 - p[1]) + 1]],
         scoreIncrease |-> SumSeq([k \in 1 .. size |-> res[k - 1].score])]

moveBoard(board, size, direction) ==
    CASE direction = "left" -> moveLeft(board, size)
      [] direction = "right" -> moveRight(board, size)
      [] direction = "up" -> moveUp(board, size)
      [] direction = "down" -> moveDown(board, size)

\* getEmptyCells, in row-major order.
RECURSIVE RowMajor(_, _)
RowMajor(size, k) ==
    IF k >= size * size THEN <<>>
    ELSE << <<k \div size, k % size>> >> \o RowMajor(size, k + 1)

getEmptyCells(board, size) ==
    SelectSeq(RowMajor(size, 0), LAMBDA p : board[p] = 0)

checkFor2048(board) == \E p \in DOMAIN board : board[p] >= WinTarget

canMove(board, size) ==
    \/ Len(getEmptyCells(board, size)) > 0
    \/ \E p \in DOMAIN board :
          \/ p[2] < size - 1 /\ board[p] = board[<<p[1], p[2] + 1>>]
          \/ p[1] < size - 1 /\ board[p] = board[<<p[1] + 1, p[2]>>]

HighestOf(board) ==
    IF \A p \in DOMAIN board : board[p] = 0 THEN 0
    ELSE CHOOSE v \in { board[p] : p \in DOMAIN board } :
            \A p \in DOMAIN board : board[p] <= v

updateHighestTile(st) == [st EXCEPT !.highestTile = HighestOf(st.board)]

\* A variant that draws among all the cells, not only the empty ones.
addRandomCellAnywhere(st, randomIndex, value) ==
    [st EXCEPT !.board[RowMajor(BoardSize, 0)[randomIndex + 1]] = value]

\* addRandomCell with the outcome of its two Math.random() draws: the index
\* into the empty cells and the value.
addRandomCell(st, randomIndex, value) ==
    LET emptyCells == getEmptyCells(st.board, BoardSize)
    IN  IF Len(emptyCells) = 0 THEN st
        ELSE [st EXCEPT !.board[emptyCells[randomIndex + 1]] = value]

checkGameStatus(st) ==
    IF checkFor2048(st.board) /\ st.status = "playing"
    THEN [st EXCEPT !.status = "won"]
    ELSE IF ~canMove(st.board, BoardSize)
         THEN [st EXCEPT !.status = "lost"]
         ELSE st

\* A variant that drops the newest entry when the history is full.
saveToHistoryKeepOldest(st) ==
    LET pushed == Append(st.history,
                         [board |-> st.board, score |-> st.score,
                          moveCount |-> st.moveCount])
    IN  [st EXCEPT !.history =
            IF Len(pushed) > HistoryLimit
            THEN SubSeq(pushed, 1, HistoryLimit) ELSE pushed]

saveToHistory(st) ==
    LET pushed == Append(st.history,
                         [board |-> st.board, score |-> st.score,
                          moveCount |-> st.moveCount])
    IN  [st EXCEPT !.history =
            IF Len(pushed) > HistoryLimit THEN Tail(pushed) ELSE pushed]

tileInitialState ==
    [status |-> "idle",
     board |-> [p \in TPos(BoardSize) |-> 0],
     score |-> 0,
     canUndo |-> FALSE,
     moveCount |-> 0,
     highestTile |-> 0,
     history |-> <<>>]

\* What the random source may yield for a board with n empty cells.
RandomIndexes(n) ==
    IF n = 0 \/ trng = "zero" THEN {0} ELSE 0 .. n - 1
RandomValues == IF trng = "zero" THEN {2} ELSE {2, 4}

\* move(direction) with the draws of its addRandomCell.
moveResult(st, direction, randomIndex, value) ==
    IF st.status # "playing"
    THEN [st |-> st,
          ret |-> [kind |-> "move", moved |-> FALSE, scoreIncrease |-> 0,
                   reached2048 |-> FALSE]]
    ELSE
      LET s1 == saveToHistory(st)
          slid == moveBoard(st.board, BoardSize, direction)
          moved == slid.board # st.board
      IN  IF moved
          THEN LET s2 == [s1 EXCEPT !.board = slid.board,
                                    !.score = @ + slid.scoreIncrease,
                                    !.moveCount = @ + 1,
                                    !.canUndo = TRUE]
                   reached2048 == checkFor2048(s2.board)
                   s3 == addRandomCell(updateHighestTile(s2), randomIndex, value)
               IN  [st |-> checkGameStatus(s3),
                    ret |-> [kind |-> "move", moved |-> TRUE,
                             scoreIncrease |-> slid.scoreIncrease,
                             reached2048 |-> reached2048]]
          ELSE [st |-> [s1 EXCEPT !.history = SubSeq(@, 1, Len(@) - 1)],
                ret |-> [kind |-> "move", moved |-> FALSE,
                         scoreIncrease |-> slid.scoreIncrease,
                         reached2048 |-> FALSE]]

\* A variant that restores the board and the move count but not the score.
undoResultKeepScore(st) ==
    IF ~st.canUndo \/ Len(st.history) = 0
    THEN [st |-> st, ret |-> [kind |-> "undo", ok |-> FALSE]]
    ELSE LET lastState == st.history[Len(st.history)]
             rest == SubSeq(st.history, 1, Len(st.history) - 1)
         IN  [st |-> [st EXCEPT !.history = rest,
                                !.board = lastState.board,
                                !.moveCount = lastState.moveCount,
                                !.canUndo = Len(rest) > 0],
              ret |-> [kind |-> "undo", ok |-> TRUE]]

undoResult(st) ==
    IF ~st.canUndo \/ Len(st.history) = 0 THEN [st |-> st, ret |-> [kind |-> "undo", ok |-> FALSE]]
    ELSE LET lastState == st.history[Len(st.history)]
             rest == SubSeq(st.history, 1, Len(st.history) - 1)
         IN  [st |-> [st EXCEPT !.history = rest,
                                !.board = lastState.board,
                                !.score = lastState.score,
                                !.moveCount = lastState.moveCount,
                                !.canUndo = Len(rest) > 0],
              ret |-> [kind |-> "undo", ok |-> TRUE]]

\* A variant that also forgets the undo history.
continueResultNewHistory(st) ==
    IF st.status = "won"
    THEN [st EXCEPT !.status = "playing", !.history = <<>>, !.canUndo = FALSE]
    ELSE st

continueResult(st) ==
    IF st.status = "won" THEN [st EXCEPT !.status = "playing"] ELSE st

\* The listeners continueGame calls: the callback the engine keeps, which is
\* the one registered last.
continueNotified(st) ==
    IF st.status = "won" THEN <<Listeners[Len(Listeners)]>> ELSE <<>>

\* ---- commands ----------------------------------------------------------

MoveBudget == IF trng = "zero" THEN MaxMovesZero ELSE MaxMoves

\* The engine after construction; Math.random is either left alone or
\* stubbed to return 0 (first empty cell, value 2).
TileInit ==
    /\ ts = tileInitialState
    /\ tret = NoRet
    /\ trng \in {"any", "zero"}
    /\ snap = NoSnap
    /\ ShellOff
    /\ MineOff /\ BlockOff /\ PureOff

\* startNewGame (and restart, which calls it): InitialCells cells are added
\* to an empty board.
startNewGame ==
    /\ \E i1 \in RandomIndexes(BoardSize * BoardSize), v1 \in RandomValues :
        \E i2 \in RandomIndexes(BoardSize * BoardSize - 1), v2 \in RandomValues :
          LET s1 == addRandomCell(tileInitialState, i1, v1)
              s2 == addRandomCell(s1, i2, v2)
          IN  ts' = [updateHighestTile(s2) EXCEPT !.status = "playing"]
    /\ tret' = NoRet
    /\ snap' = Follow(snap, ts'.board, TRUE)
    /\ UNCHANGED <<gc, trng, mineVars, blockVars, pureVars>>

move(direction) ==
    /\ ts.moveCount < MoveBudget
    /\ LET slid == moveBoard(ts.board, BoardSize, direction)
           n == Len(getEmptyCells(slid.board, BoardSize))
       IN  \E randomIndex \in RandomIndexes(n), value \in RandomValues :
             LET r == moveResult(ts, direction, randomIndex, value)
             IN  /\ ts' = r.st
                 /\ tret' = r.ret
    /\ snap' = Follow(snap, ts'.board, FALSE)
    /\ UNCHANGED <<gc, trng, mineVars, blockVars, pureVars>>

undo ==
    /\ LET r == undoResult(ts)
       IN  /\ ts' = r.st
           /\ tret' = r.ret
    /\ snap' = Follow(snap, ts'.board, tret'.ok)
    /\ UNCHANGED <<gc, trng, mineVars, blockVars, pureVars>>

continueGame ==
    /\ ts' = continueResult(ts)
    /\ tret' = NoRet
    /\ snap' = Follow(snap, ts'.board, FALSE)
    /\ UNCHANGED <<gc, trng, mineVars, blockVars, pureVars>>

TileStartNewGame == startNewGame
TileMove == \E direction \in Directions : move(direction)
TileUndo == undo
TileContinueGame == continueGame

TileNext ==
    \/ TileStartNewGame
    \/ TileMove
    \/ TileUndo
    \/ TileContinueGame

SpecTile == TileInit /\ [][TileNext]_vars

\* ---- the slide of a line and of a board, as pure functions -------------

MaxLineLen == 4
LineValues == {0, 2, 4, 8}
SlideSize == 3
SlideValues == {0, 2}

SlideLines ==
    UNION { [1 .. n -> LineValues] : n \in 1 .. MaxLineLen }
SlideBoards == [TPos(SlideSize) -> SlideValues]

SlideInit ==
    /\ \/ \E line \in SlideLines : pin = [kind |-> "line", line |-> line]
       \/ \E board \in SlideBoards : pin = [kind |-> "board", board |-> board]
    /\ pout = [kind |-> "none"]
    /\ snap = NoSnap
    /\ ShellOff
    /\ MineOff /\ TileOff /\ BlockOff

SlideMergeLine ==
    /\ pin.kind = "line" /\ pout.kind = "none"
    /\ pout' = [kind |-> "line", res |-> mergeLine(pin.line)]
    /\ UNCHANGED <<gc, pin, snap, mineVars, tileVars, blockVars>>

SlideMoveBoard ==
    /\ pin.kind = "board" /\ pout.kind = "none"
    /\ \E direction \in Directions :
          pout' = [kind |-> "board", direction |-> direction,
                   res |-> moveBoard(pin.board, SlideSize, direction)]
    /\ UNCHANGED <<gc, pin, snap, mineVars, tileVars, blockVars>>

SlideNext == SlideMergeLine \/ SlideMoveBoard

SpecSlide == SlideInit /\ [][SlideNext]_vars

\* The slide of a line as the rule states it, on a line without zeros: the
\* first two elements merge when equal and the scan resumes after them,
\* otherwise the first element stays and the scan resumes at the second.
RECURSIVE MergeRule(_)
MergeRule(s) ==
    IF Len(s) < 2 THEN [line |-> s, score |-> 0]
    ELSE IF s[1] = s[2]
         THEN LET r == MergeRule(SubSeq(s, 3, Len(s)))
              IN  [line |-> <<2 * s[1]>> \o r.line, score |-> 2 * s[1] + r.score]
         ELSE LET r == MergeRule(Tail(s))
              IN  [line |-> <<s[1]>> \o r.line, score |-> r.score]

SlideRule(line) ==
    LET r == MergeRule(SelectSeq(line, LAMBDA v : v # 0))
    IN  [newLine |-> r.line \o [i \in 1 .. Len(line) - Len(r.line) |-> 0],
         score |-> r.score]

\* The line of the board that slides toward `direction` through cell p,
\* read from its leading edge, and the index of p in it.
LineThrough(board, size, direction, p) ==
    CASE direction = "left" -> [k \in 1 .. size |-> board[<<p[1], k - 1>>]]
      [] direction = "right" -> [k \in 1 .. size |-> board[<<p[1], size - k>>]]
      [] direction = "up" -> [k \in 1 .. size |-> board[<<k - 1, p[2]>>]]
      [] direction = "down" -> [k \in 1 .. size |-> board[<<size - k, p[2]>>]]

IndexIn(size, direction, p) ==
    CASE direction = "left" -> p[2] + 1
      [] direction = "right" -> size - p[2]
      [] direction = "up" -> p[1] + 1
      [] direction = "down" -> size - p[1]

\* The lines of the board for a direction, one per row or column.
LinesOf(board, size, direction) ==
    [k \in 1 .. size |->
        LineThrough(board, size, direction, <<k - 1, k - 1>>)]

BoardRule(board, size, direction) ==
    [board |-> [p \in TPos(size) |->
                   SlideRule(LineThrough(board, size, direction, p))
                       .newLine[IndexIn(size, direction, p)]],
     scoreIncrease |->
         SumSeq([k \in 1 .. size |->
                    SlideRule(LinesOf(board, size, direction)[k]).score])]

\* C2: mergeLine slides a line as the rule states (zeros removed, each
\* element merged with its neighbour only when equal and neither already
\* merged, merged values summed into the score, padded with zeros), and the
\* four directions apply it to every row or column from the leading edge.
C2_SlideFollowsRule ==
    /\ pout.kind = "line" => pout.res = SlideRule(pin.line)
    /\ pout.kind = "board" =>
          pout.res = BoardRule(pin.board, SlideSize, pout.direction)

\* [2,2,4,0] slid gives [4,4,0,0] and scores 4.
C2_Witness ==
    /\ pin.kind = "line" /\ pin.line = <<2, 2, 4, 0>>
    /\ pout.kind = "line"
    /\ pout.res = [newLine |-> <<4, 4, 0, 0>>, score |-> 4]

\* ---- 2048 properties ---------------------------------------------------

\* C5: a move that leaves the board as it was returns moved = false and
\* leaves score, moveCount and the history unchanged.
C5_RejectedMoveChangesNothing ==
    ts.status = "playing" =>
        \A direction \in Directions :
            moveBoard(ts.board, BoardSize, direction).board = ts.board =>
                LET r == moveResult(ts, direction, 0, 2)
                IN  /\ ~r.ret.moved
                    /\ r.st.score = ts.score
                    /\ r.st.moveCount = ts.moveCount
                    /\ r.st.history = ts.history

\* C6: undo right after a successful move returns true and restores the
\* board, score and moveCount the move started from; undo without history
\* returns false and changes nothing.
C6_UndoRestoresPreMove ==
    /\ ts.status = "playing" =>
          \A direction \in Directions :
            \A value \in {2, 4} :
              \A randomIndex \in
                  0 .. Max(0, Len(getEmptyCells(
                          moveBoard(ts.board, BoardSize, direction).board,
                          BoardSize)) - 1) :
                LET m == moveResult(ts, direction, randomIndex, value)
                    u == undoResult(m.st)
                IN  m.ret.moved =>
                      /\ u.ret.kind = "undo" /\ u.ret.ok
                      /\ u.st.board = ts.board
                      /\ u.st.score = ts.score
                      /\ u.st.moveCount = ts.moveCount
    /\ (ts.status # "off" /\ Len(ts.history) = 0) =>
          undoResult(ts) = [st |-> ts, ret |-> [kind |-> "undo", ok |-> FALSE]]

\* An undo has just succeeded and restored a state reached by a move.
C6_Witness ==
    /\ tret.kind = "undo" /\ tret.ok
    /\ ts.moveCount >= 1
    /\ ts.status = "playing"

\* C8: in status won or lost, move and undo are rejected and change
\* neither the board, the score nor moveCount.
C8_TerminalRejectsMoveAndUndo ==
    ts.status \in {"won", "lost"} =>
        /\ undoResult(ts) = [st |-> ts, ret |-> [kind |-> "undo", ok |-> FALSE]]
        /\ \A direction \in Directions :
              LET r == moveResult(ts, direction, 0, 2)
              IN  r.st = ts /\ ~r.ret.moved

PowersOfTwo == { 2 ^ k : k \in 1 .. 16 }

\* C13: in every state of a game every cell is empty or holds a power of
\* two that is at least 2.
C13_TilesArePowersOfTwo ==
    ts.status # "off" =>
        \A p \in DOMAIN ts.board : ts.board[p] = 0 \/ ts.board[p] \in PowersOfTwo

\* Two merges in a row have built a tile of 8 or more.
C13_Witness ==
    /\ ts.status # "off"
    /\ ts.moveCount >= 2
    /\ \E p \in DOMAIN ts.board : ts.board[p] >= 8

\* No cell is empty and no two cells next to each other in a row or in a
\* column hold the same value.
Stuck(board) ==
    /\ \A p \in DOMAIN board : board[p] # 0
    /\ \A p \in DOMAIN board : \A q \in DOMAIN board :
          Abs(p[1] - q[1]) + Abs(p[2] - q[2]) = 1 => board[p] # board[q]

\* The draws a move can make on the board it has slid.
SpawnIndexes(board, direction) ==
    0 .. Max(0, Len(getEmptyCells(moveBoard(board, BoardSize, direction).board,
                                  BoardSize)) - 1)

\* C14: after a successful move the status is lost exactly when the board,
\* spawn included, is stuck; a rejected move leaves the status as it was.
C14_LostIffStuck ==
    ts.status # "off" =>
        \A direction \in Directions :
          \A value \in {2, 4} :
            \A randomIndex \in SpawnIndexes(ts.board, direction) :
              LET m == moveResult(ts, direction, randomIndex, value)
              IN  /\ m.ret.moved =>
                        (m.st.status = "lost" <=> Stuck(m.st.board))
                  /\ ~m.ret.moved => m.st.status = ts.status

\* C15: continueGame in status won sets the status to playing and keeps
\* board, score, moveCount and history; in any other status it changes
\* nothing.
C15_ContinueKeepsGame ==
    ts.status # "off" =>
        LET r == continueResult(ts)
        IN  IF ts.status = "won"
            THEN /\ r.status = "playing"
                 /\ r.board = ts.board
                 /\ r.score = ts.score
                 /\ r.moveCount = ts.moveCount
                 /\ r.history = ts.history
            ELSE r = ts

\* A won game has just been continued: it is in play with a winning tile
\* on the board and its history kept.
C15_Witness ==
    /\ ts.status = "playing"
    /\ tret = NoRet
    /\ checkFor2048(ts.board)
    /\ Len(ts.history) >= 1

\* C26: after a successful move the board is the slid and merged board with
\* one more tile: exactly one cell differs, it was empty after the slide
\* and holds 2 or 4; a rejected move leaves the board as it was.
C26_MoveAddsOneTile ==
    ts.status # "off" =>
        \A direction \in Directions :
          \A value \in {2, 4} :
            \A randomIndex \in SpawnIndexes(ts.board, direction) :
              LET m == moveResult(ts, direction, randomIndex, value)
                  slid == BoardRule(ts.board, BoardSize, direction).board
                  added == { p \in DOMAIN slid : m.st.board[p] # slid[p] }
              IN  IF m.ret.moved
                  THEN /\ Cardinality(added) = 1
                       /\ \A p \in added : slid[p] = 0 /\ m.st.board[p] \in {2, 4}
                  ELSE m.st.board = ts.board

\* A move has merged two tiles and a tile has been added next to others.
C26_Witness ==
    /\ tret.kind = "move" /\ tret.moved
    /\ tret.scoreIncrease > 0
    /\ Cardinality({ p \in DOMAIN ts.board : ts.board[p] # 0 }) >= 3

RECURSIVE UndoTimes(_, _)
\* The state manager after k calls of undo.
UndoTimes(st, k) ==
    IF k = 0 THEN st ELSE undoResult(UndoTimes(st, k - 1)).st

\* The last n elements of a sequence, all of them when it has fewer.
LastN(s, n) == IF Len(s) <= n THEN s ELSE SubSeq(s, Len(s) - n + 1, Len(s))

\* What the history keeps of a state.
Saved(st) == [board |-> st.board, score |-> st.score, moveCount |-> st.moveCount]

\* C27: the history never holds more than 10 entries and its entries are
\* the states the latest moves started from, oldest first; a successful
\* move appends the state it started from and drops the oldest entry when
\* there are more than 10; with L entries, L in 1..10, exactly L calls of
\* undo in a row succeed, restoring the entries from the newest to the
\* oldest, and the next call returns false and changes nothing.  Ten or
\* more successful moves in a row thus leave the ten most recent pre-move
\* states, which ten calls of undo restore in reverse order.
C27_HistoryKeepsLastTen ==
    ts.status # "off" =>
      LET L == Len(ts.history)
      IN  /\ L <= 10
          /\ \A i \in 1 .. L : ts.history[i].moveCount = ts.moveCount - L + i - 1
          /\ \A direction \in Directions :
                \A value \in {2, 4} :
                  \A randomIndex \in SpawnIndexes(ts.board, direction) :
                    LET m == moveResult(ts, direction, randomIndex, value)
                    IN  m.ret.moved =>
                          /\ m.st.history = LastN(Append(ts.history, Saved(ts)), 10)
                          /\ m.st.canUndo
          /\ (ts.canUndo /\ L >= 1) =>
                /\ \A j \in 1 .. L :
                      LET r == undoResult(UndoTimes(ts, j - 1))
                      IN  /\ r.ret.ok
                          /\ Saved(r.st) = ts.history[L + 1 - j]
                /\ undoResult(UndoTimes(ts, L)) =
                      [st |-> UndoTimes(ts, L), ret |-> [kind |-> "undo", ok |-> FALSE]]

\* An eleventh successful move in a row has pushed the oldest entry out of
\* a full history.
C27_Witness ==
    /\ tret.kind = "move" /\ tret.moved
    /\ Len(ts.history) = 10
    /\ ts.moveCount >= 11
    /\ ts.history[1].moveCount = ts.moveCount - 10

\* C34: once the game has been continued (status playing with a tile that
\* has reached the win target on the board), no successful move sets the
\* status to won again.
C34_WonAtMostOnce ==
    (ts.status = "playing" /\ checkFor2048(ts.board)) =>
        \A direction \in Directions :
          \A value \in {2, 4} :
            \A randomIndex \in SpawnIndexes(ts.board, direction) :
              LET m == moveResult(ts, direction, randomIndex, value)
              IN  m.ret.moved => m.st.status # "won"

\* C35: while the status is playing, the board is not stuck: some direction
\* would be a successful move.
C35_PlayingHasLegalMove ==
    ts.status = "playing" =>
        /\ ~Stuck(ts.board)
        /\ \E direction \in Directions :
              moveResult(ts, direction, 0, 2).ret.moved

\* C38: after a successful move and after a successful undo, highestTile is
\* the largest tile value on the board.
C38_HighestTileIsBoardMax ==
    ts.status # "off" =>
        /\ \A direction \in Directions :
             \A value \in {2, 4} :
               \A randomIndex \in SpawnIndexes(ts.board, direction) :
                 LET m == moveResult(ts, direction, randomIndex, value)
                 IN  m.ret.moved =>
                        m.st.highestTile = HighestOf(m.st.board)
        /\ LET u == undoResult(ts)
           IN  u.ret.ok => u.st.highestTile = HighestOf(u.st.board)

(***************************************************************************)
(*                                TETRIS                                   *)
(***************************************************************************)

\* The configuration the engine is built with.  speedIncrease is given in
\* percent, so 50 stands for the factor 0.5.
BlockConfig ==
    [boardWidth |-> 4, boardHeight |-> 4, initialSpeed |-> 100,
     speedIncrease |-> 50, linesPerLevel |-> 2]

\* Most pieces locked in one game.
MaxLocks == 2
\* Most points earned by soft and hard drops in one game.
MaxDropPoints == 6
\* The clock advances in steps of TimeStep up to MaxTime.
TimeStep == 50
MaxTime == 100

PieceTypes == {"I", "O", "T", "S", "Z", "J", "L"}
\* The piece types the random source yields.
SpawnTypes == {"I", "O", "T", "L"}

PIECE_SHAPES ==
    [I |-> << << <<0,0,0,0>>, <<1,1,1,1>>, <<0,0,0,0>>, <<0,0,0,0>> >>,
              << <<0,0,1,0>>, <<0,0,1,0>>, <<0,0,1,0>>, <<0,0,1,0>> >> >>,
     O |-> << << <<1,1>>, <<1,1>> >> >>,
     T |-> << << <<0,1,0>>, <<1,1,1>>, <<0,0,0>> >>,
              << <<0,1,0>>, <<0,1,1>>, <<0,1,0>> >>,
              << <<0,0,0>>, <<1,1,1>>, <<0,1,0>> >>,
              << <<0,1,0>>, <<1,1,0>>, <<0,1,0>> >> >>,
     S |-> << << <<0,1,1>>, <<1,1,0>>, <<0,0,0>> >>,
              << <<0,1,0>>, <<0,1,1>>, <<0,0,1>> >> >>,
     Z |-> << << <<1,1,0>>, <<0,1,1>>, <<0,0,0>> >>,
              << <<0,0,1>>, <<0,1,1>>, <<0,1,0>> >> >>,
     J |-> << << <<1,0,0>>, <<1,1,1>>, <<0,0,0>> >>,
              << <<0,1,1>>, <<0,1,0>>, <<0,1,0>> >>,
              << <<0,0,0>>, <<1,1,1>>, <<0,0,1>> >>,
              << <<0,1,0>>, <<0,1,0>>, <<1,1,0>> >> >>,
     L |-> << << <<0,0,1>>, <<1,1,1>>, <<0,0,0>> >>,
              << <<0,1,0>>, <<0,1,0>>, <<0,1,1>> >>,
              << <<0,0,0>>, <<1,1,1>>, <<1,0,0>> >>,
              << <<1,1,0>>, <<0,1,0>>, <<0,1,0>> >> >>]

SCORE_VALUES ==
    [SINGLE |-> 100, DOUBLE |-> 300, TRIPLE |-> 500, TETRIS |-> 800,
     SOFT_DROP |-> 1, HARD_DROP |-> 2]

\* null for currentPiece and nextPiece.
NoPiece ==
    [type |-> "none", position |-> [x |-> 0, y |-> 0], rotation |-> 0,
     shape |-> <<>>]

\* The board is a sequence of rows, top row first; board[y + 1][x + 1] is
\* the cell the code writes board[y][x]; "null" is an empty cell.
tetrisEmptyBoard(width, height) ==
    [y \in 1 .. height |-> [x \in 1 .. width |-> "null"]]

tetrisInitialState(config) ==
    [status |-> "idle",
     board |-> tetrisEmptyBoard(config.boardWidth, config.boardHeight),
     currentPiece |-> NoPiece,
     nextPiece |-> NoPiece,
     score |-> 0,
     level |-> 1,
     lines |-> 0,
     dropSpeed |-> config.initialSpeed,
     lastDropTime |-> 0,
     canPause |-> FALSE]

createPiece(type, boardWidth) ==
    LET shape == PIECE_SHAPES[type][1]
    IN  [type |-> type,
         position |-> [x |-> (boardWidth - Len(shape[1])) \div 2, y |-> 0],
         rotation |-> 0,
         shape |-> shape]

\* A variant that tests the bounds only, not the cells already filled.
canPlacePieceInBounds(board, piece, position) ==
    \A row \in 1 .. Len(piece.shape) :
      \A col \in 1 .. Len(piece.shape[row]) :
        piece.shape[row][col] = 1 =>
          LET boardX == position.x + (col - 1)
              boardY == position.y + (row - 1)
          IN  ~(boardX < 0 \/ boardX >= Len(board[1])
                 \/ boardY < 0 \/ boardY >= Len(board))

canPlacePiece(board, piece, position) ==
    \A row \in 1 .. Len(piece.shape) :
      \A col \in 1 .. Len(piece.shape[row]) :
        piece.shape[row][col] = 1 =>
          LET boardX == position.x + (col - 1)
              boardY == position.y + (row - 1)
          IN  /\ ~(boardX < 0 \/ boardX >= Len(board[1])
                    \/ boardY < 0 \/ boardY >= Len(board))
              /\ board[boardY + 1][boardX + 1] = "null"

placePieceOnBoard(board, piece) ==
    [y \in 1 .. Len(board) |->
       [x \in 1 .. Len(board[1]) |->
          LET row == y - piece.position.y
              col == x - piece.position.x
          IN  IF /\ row \in 1 .. Len(piece.shape)
                 /\ col \in 1 .. Len(piece.shape[row])
                 /\ piece.shape[row][col] = 1
              THEN piece.type
              ELSE board[y][x]]]

\* The loop of clearCompleteLines, from the bottom row up: a complete row is
\* counted, any other row is put in front of newBoard.
RECURSIVE clearLoop(_, _, _, _)
clearLoop(board, row, newBoard, clearedLines) ==
    IF row < 1 THEN [newBoard |-> newBoard, clearedLines |-> clearedLines]
    ELSE IF \A x \in 1 .. Len(board[row]) : board[row][x] # "null"
    THEN clearLoop(board, row - 1, newBoard, clearedLines + 1)
    ELSE clearLoop(board, row - 1, <<board[row]>> \o newBoard, clearedLines)

RECURSIVE padTop(_, _, _)
padTop(newBoard, height, width) ==
    IF Len(newBoard) < height
    THEN padTop(<<[x \in 1 .. width |-> "null"]>> \o newBoard, height, width)
    ELSE newBoard

\* A variant that counts the complete rows and leaves them on the board.
clearCompleteLinesKeepRows(board) ==
    [newBoard |-> board,
     clearedLines |->
        Cardinality({ y \in 1 .. Len(board) :
                        \A x \in 1 .. Len(board[y]) : board[y][x] # "null" })]

\* A variant that empties the complete rows where they are.
clearCompleteLinesInPlace(board) ==
    LET full(y) == \A x \in 1 .. Len(board[y]) : board[y][x] # "null"
    IN  [newBoard |->
           [y \in 1 .. Len(board) |->
              IF full(y) THEN [x \in 1 .. Len(board[y]) |-> "null"]
              ELSE board[y]],
         clearedLines |-> Cardinality({y \in 1 .. Len(board) : full(y)})]

clearCompleteLines(board) ==
    LET r == clearLoop(board, Len(board), <<>>, 0)
    IN  [newBoard |-> padTop(r.newBoard, Len(board), Len(board[1])),
         clearedLines |-> r.clearedLines]

rotatePiece(piece) ==
    LET shapes == PIECE_SHAPES[piece.type]
        nextRotation == (piece.rotation + 1) % Len(shapes)
    IN  [piece EXCEPT !.rotation = nextRotation,
                      !.shape = shapes[nextRotation + 1]]

movePiece(piece, dx, dy) ==
    [piece EXCEPT !.position = [x |-> piece.position.x + dx,
                                y |-> piece.position.y + dy]]

calculateScore(clearedLines, level, dropType) ==
    (CASE clearedLines = 1 -> SCORE_VALUES.SINGLE * level
       [] clearedLines = 2 -> SCORE_VALUES.DOUBLE * level
       [] clearedLines = 3 -> SCORE_VALUES.TRIPLE * level
       [] clearedLines = 4 -> SCORE_VALUES.TETRIS * level
       [] OTHER -> 0)
    + (CASE dropType = "soft" -> SCORE_VALUES.SOFT_DROP
         [] dropType = "hard" -> SCORE_VALUES.HARD_DROP
         [] OTHER -> 0)

\* A variant that counts the levels from zero.
calculateLevelFromZero(lines, linesPerLevel) == lines \div linesPerLevel

calculateLevel(lines, linesPerLevel) == (lines \div linesPerLevel) + 1

RECURSIVE Scaled(_, _, _)
\* speed times (percent / 100) ^ n, taken one factor at a time so that no
\* product leaves the range of the integers.
Scaled(speed, percent, n) ==
    IF n = 0 THEN speed
    ELSE Scaled((speed * percent) \div 100, percent, n - 1)

\* Math.max(50, initialSpeed * speedIncrease ^ (level - 1)), with the factor
\* in percent; exact whenever the products are whole numbers or below 50.
calculateDropSpeed(level, initialSpeed, speedIncrease) ==
    Max(50, Scaled(initialSpeed, speedIncrease, level - 1))

\* A variant that never reports the end of the game.
isGameOverNever(board, piece) == FALSE

isGameOver(board, piece) == ~canPlacePiece(board, piece, piece.position)

RECURSIVE ghostLoop(_, _, _)
ghostLoop(board, piece, ghostY) ==
    IF canPlacePiece(board, piece, [x |-> piece.position.x, y |-> ghostY + 1])
    THEN ghostLoop(board, piece, ghostY + 1)
    ELSE ghostY

\* A variant that looks one row down only.
getGhostPositionOneRow(board, piece) ==
    [x |-> piece.position.x,
     y |-> IF canPlacePiece(board, piece,
                            [x |-> piece.position.x, y |-> piece.position.y + 1])
           THEN piece.position.y + 1
           ELSE piece.position.y]

getGhostPosition(board, piece) ==
    [x |-> piece.position.x, y |-> ghostLoop(board, piece, piece.position.y)]

\* ---- the engine ---------------------------------------------------------
\* An engine value e has the fields of TetrisEngine: state, and gameLoopId,
\* which is "null", "pending" (a frame is requested) or "stale" (an id whose
\* frame has run without requesting another).

stopGameLoop(e) == [e EXCEPT !.gameLoopId = "null"]

startGameLoop(e) ==
    IF e.gameLoopId # "null" THEN e ELSE [e EXCEPT !.gameLoopId = "pending"]

endGame(e) ==
    stopGameLoop([e EXCEPT !.state.status = "lost", !.state.canPause = FALSE])

\* A variant that draws every new piece, whether or not one is waiting.
spawnNewPieceDrawn(e, pieceType) ==
    LET e1 == [e EXCEPT !.state.currentPiece =
                  createPiece(pieceType, BlockConfig.boardWidth)]
    IN  IF isGameOver(e1.state.board, e1.state.currentPiece)
        THEN endGame(e1) ELSE e1

spawnNewPiece(e, pieceType) ==
    LET e1 == [e EXCEPT !.state.currentPiece =
                  IF e.state.nextPiece # NoPiece THEN e.state.nextPiece
                  ELSE createPiece(pieceType, BlockConfig.boardWidth)]
    IN  IF isGameOver(e1.state.board, e1.state.currentPiece)
        THEN endGame(e1) ELSE e1

spawnNextPiece(e, pieceType) ==
    [e EXCEPT !.state.nextPiece = createPiece(pieceType, BlockConfig.boardWidth)]

\* A variant that pays the cleared rows at the level they lead to.
placePieceNewLevel(e, t1, t2) ==
    LET placed == placePieceOnBoard(e.state.board, e.state.currentPiece)
        c == clearCompleteLines(placed)
        e1 == [e EXCEPT !.state.board = c.newBoard]
        lines == e.state.lines + c.clearedLines
        newLevel == calculateLevel(lines, BlockConfig.linesPerLevel)
        e2 == IF c.clearedLines > 0
              THEN [e1 EXCEPT
                      !.state.score =
                          @ + calculateScore(c.clearedLines,
                                             Max(newLevel, e.state.level), "none"),
                      !.state.lines = lines,
                      !.state.level = IF newLevel > @ THEN newLevel ELSE @,
                      !.state.dropSpeed =
                          IF newLevel > e.state.level
                          THEN calculateDropSpeed(newLevel, BlockConfig.initialSpeed,
                                                  BlockConfig.speedIncrease)
                          ELSE @]
              ELSE e1
    IN  spawnNextPiece(spawnNewPiece(e2, t1), t2)

\* placePiece; t1 and t2 are the draws of spawnNewPiece and spawnNextPiece.
placePiece(e, t1, t2) ==
    LET placed == placePieceOnBoard(e.state.board, e.state.currentPiece)
        c == clearCompleteLines(placed)
        e1 == [e EXCEPT !.state.board = c.newBoard]
        lines == e.state.lines + c.clearedLines
        newLevel == calculateLevel(lines, BlockConfig.linesPerLevel)
        e2 == IF c.clearedLines > 0
              THEN [e1 EXCEPT
                      !.state.score =
                          @ + calculateScore(c.clearedLines, e.state.level, "none"),
                      !.state.lines = lines,
                      !.state.level = IF newLevel > @ THEN newLevel ELSE @,
                      !.state.dropSpeed =
                          IF newLevel > e.state.level
                          THEN calculateDropSpeed(newLevel, BlockConfig.initialSpeed,
                                                  BlockConfig.speedIncrease)
                          ELSE @]
              ELSE e1
    IN  spawnNextPiece(spawnNewPiece(e2, t1), t2)

movePieceLeft(e) ==
    LET newPiece == movePiece(e.state.currentPiece, -1, 0)
    IN  IF canPlacePiece(e.state.board, newPiece, newPiece.position)
        THEN [e EXCEPT !.state.currentPiece = newPiece] ELSE e

movePieceRight(e) ==
    LET newPiece == movePiece(e.state.currentPiece, 1, 0)
    IN  IF canPlacePiece(e.state.board, newPiece, newPiece.position)
        THEN [e EXCEPT !.state.currentPiece = newPiece] ELSE e

movePieceDown(e, isPlayerInput, t1, t2) ==
    IF e.state.currentPiece = NoPiece THEN e
    ELSE LET newPiece == movePiece(e.state.currentPiece, 0, 1)
         IN  IF canPlacePiece(e.state.board, newPiece, newPiece.position)
             THEN [e EXCEPT !.state.currentPiece = newPiece,
                            !.state.score =
                                IF isPlayerInput
                                THEN @ + calculateScore(0, e.state.level, "soft")
                                ELSE @]
             ELSE placePiece(e, t1, t2)

\* A variant that tries the upward kick before the sideways ones.
kickOffsetsUpFirst ==
    << [x |-> 0, y |-> -1], [x |-> -1, y |-> 0], [x |-> 1, y |-> 0],
       [x |-> -1, y |-> -1], [x |-> 1, y |-> -1] >>

kickOffsets ==
    << [x |-> -1, y |-> 0], [x |-> 1, y |-> 0], [x |-> 0, y |-> -1],
       [x |-> -1, y |-> -1], [x |-> 1, y |-> -1] >>

\* The for loop of the engine's rotatePiece over kickOffsets, from index i.
RECURSIVE kickLoop(_, _, _)
kickLoop(e, rotatedPiece, i) ==
    IF i > Len(kickOffsets) THEN e
    ELSE LET kickedPosition ==
                 [x |-> rotatedPiece.position.x + kickOffsets[i].x,
                  y |-> rotatedPiece.position.y + kickOffsets[i].y]
         IN  IF canPlacePiece(e.state.board, rotatedPiece, kickedPosition)
             THEN [e EXCEPT !.state.currentPiece =
                      [rotatedPiece EXCEPT !.position = kickedPosition]]
             ELSE kickLoop(e, rotatedPiece, i + 1)

engineRotatePiece(e) ==
    LET rotatedPiece == rotatePiece(e.state.currentPiece)
    IN  IF canPlacePiece(e.state.board, rotatedPiece, rotatedPiece.position)
        THEN [e EXCEPT !.state.currentPiece = rotatedPiece]
        ELSE kickLoop(e, rotatedPiece, 1)

hardDrop(e, t1, t2) ==
    LET ghostPosition == getGhostPosition(e.state.board, e.state.currentPiece)
        dropDistance == ghostPosition.y - e.state.currentPiece.position.y
        e1 == [e EXCEPT !.state.currentPiece.position = ghostPosition,
                        !.state.score =
                            @ + calculateScore(0, e.state.level, "hard") * dropDistance]
    IN  placePiece(e1, t1, t2)

InputActions == {"move-left", "move-right", "move-down", "rotate", "hard-drop"}

handleInputResult(e, action, t1, t2) ==
    IF e.state.status # "playing" \/ e.state.currentPiece = NoPiece THEN e
    ELSE CASE action = "move-left" -> movePieceLeft(e)
           [] action = "move-right" -> movePieceRight(e)
           [] action = "move-down" -> movePieceDown(e, TRUE, t1, t2)
           [] action = "rotate" -> engineRotatePiece(e)
           [] action = "hard-drop" -> hardDrop(e, t1, t2)

startResult(e, clock, t1, t2) ==
    IF e.state.status # "idle" THEN e
    ELSE LET e1 == [e EXCEPT !.state.status = "playing",
                             !.state.canPause = TRUE,
                             !.state.lastDropTime = clock]
         IN  startGameLoop(spawnNextPiece(spawnNewPiece(e1, t1), t2))

\* A variant that pauses in whatever status the engine is.
pauseResultAnyStatus(e) ==
    stopGameLoop([e EXCEPT !.state.status = "paused"])

pauseResult(e) ==
    IF e.state.status = "playing"
    THEN stopGameLoop([e EXCEPT !.state.status = "paused"])
    ELSE e

\* A variant that resumes without restarting the drop timer.
resumeResultKeepClock(e, clock) ==
    IF e.state.status = "paused"
    THEN startGameLoop([e EXCEPT !.state.status = "playing"])
    ELSE e

resumeResult(e, clock) ==
    IF e.state.status = "paused"
    THEN startGameLoop([e EXCEPT !.state.status = "playing",
                                 !.state.lastDropTime = clock])
    ELSE e

restartResult(e) ==
    [stopGameLoop(e) EXCEPT !.state = tetrisInitialState(BlockConfig)]

\* A variant of the frame callback that waits for more than dropSpeed.
gameLoopResultStrict(e, clock, t1, t2) ==
    IF e.state.status = "playing"
    THEN LET e1 == IF clock - e.state.lastDropTime > e.state.dropSpeed
                   THEN [movePieceDown(e, FALSE, t1, t2)
                           EXCEPT !.state.lastDropTime = clock]
                   ELSE e
         IN  [e1 EXCEPT !.gameLoopId = "pending"]
    ELSE [e EXCEPT !.gameLoopId = "stale"]

\* The frame callback gameLoop.
gameLoopResult(e, clock, t1, t2) ==
    IF e.state.status = "playing"
    THEN LET e1 == IF clock - e.state.lastDropTime >= e.state.dropSpeed
                   THEN [movePieceDown(e, FALSE, t1, t2)
                           EXCEPT !.state.lastDropTime = clock]
                   ELSE e
         IN  [e1 EXCEPT !.gameLoopId = "pending"]
    ELSE [e EXCEPT !.gameLoopId = "stale"]

\* The events placePiece emits to the event listeners.
placePieceEvents(e, t1, t2) ==
    LET c == clearCompleteLines(
                 placePieceOnBoard(e.state.board, e.state.currentPiece))
        newLevel == calculateLevel(e.state.lines + c.clearedLines,
                                   BlockConfig.linesPerLevel)
    IN  (IF c.clearedLines > 0
         THEN (IF newLevel > e.state.level THEN <<"level-up">> ELSE <<>>)
                 \o <<"lines-cleared">>
         ELSE <<>>)
        \o (IF placePiece(e, t1, t2).state.status = "lost"
            THEN <<"game-end">> ELSE <<>>)

\* The events the frame callback emits: movePieceDown emits none when it
\* is not a player's input.
gameLoopEvents(e, clock, t1, t2) ==
    IF /\ e.state.status = "playing"
       /\ clock - e.state.lastDropTime >= e.state.dropSpeed
       /\ e.state.currentPiece # NoPiece
    THEN LET newPiece == movePiece(e.state.currentPiece, 0, 1)
         IN  IF canPlacePiece(e.state.board, newPiece, newPiece.position)
             THEN <<>>
             ELSE placePieceEvents(e, t1, t2)
    ELSE <<>>

\* ---- commands ----------------------------------------------------------

CountCells(board) ==
    Cardinality({p \in (1 .. Len(board)) \X (1 .. Len(board[1])) :
                    board[p[1]][p[2]] # "null"})

\* Pieces locked since the game began: each lock fills four cells, each
\* cleared line empties boardWidth of them.
Locks(e) ==
    (CountCells(e.state.board) + BlockConfig.boardWidth * e.state.lines) \div 4

\* Points earned by dropping: line clears pay multiples of SINGLE.
DropPoints(e) == e.state.score % SCORE_VALUES.SINGLE

Bounded(e) == Locks(e) <= MaxLocks /\ DropPoints(e) <= MaxDropPoints

\* The draws a command makes: spawnNewPiece draws only while no next piece
\* is waiting, spawnNextPiece draws whenever a piece is spawned.
FirstDraws(e) ==
    IF e.state.nextPiece # NoPiece THEN {"I"} ELSE SpawnTypes

InputDraws(e, action) ==
    IF Locks(handleInputResult(e, action, "I", "I")) = Locks(e)
    THEN {"I"} ELSE SpawnTypes

LoopDraws(e, clock) ==
    IF Locks(gameLoopResult(e, clock, "I", "I")) = Locks(e)
    THEN {"I"} ELSE SpawnTypes

BlockInit ==
    /\ be = [state |-> tetrisInitialState(BlockConfig), gameLoopId |-> "null"]
    /\ now = 0
    /\ snap = NoSnap
    /\ ShellOff
    /\ MineOff /\ TileOff /\ PureOff

start ==
    /\ \E t1 \in FirstDraws(be),
          t2 \in (IF be.state.status = "idle" THEN SpawnTypes ELSE {"I"}) :
         be' = startResult(be, now, t1, t2)
    /\ snap' = Follow(snap, be'.state.board, FALSE)
    /\ UNCHANGED <<gc, now, mineVars, tileVars, pureVars>>

pause ==
    /\ be' = pauseResult(be)
    /\ snap' = Follow(snap, be'.state.board, FALSE)
    /\ UNCHANGED <<gc, now, mineVars, tileVars, pureVars>>

resume ==
    /\ be' = resumeResult(be, now)
    /\ snap' = Follow(snap, be'.state.board, FALSE)
    /\ UNCHANGED <<gc, now, mineVars, tileVars, pureVars>>

blockRestart ==
    /\ be' = restartResult(be)
    /\ snap' = Follow(snap, be'.state.board, TRUE)
    /\ UNCHANGED <<gc, now, mineVars, tileVars, pureVars>>

handleInput(action) ==
    /\ \E t1 \in FirstDraws(be), t2 \in InputDraws(be, action) :
         be' = handleInputResult(be, action, t1, t2)
    /\ Bounded(be')
    /\ snap' = Follow(snap, be'.state.board, Locks(be') # Locks(be))
    /\ UNCHANGED <<gc, now, mineVars, tileVars, pureVars>>

gameLoop ==
    /\ be.gameLoopId = "pending"
    /\ \E t1 \in FirstDraws(be), t2 \in LoopDraws(be, now) :
         be' = gameLoopResult(be, now, t1, t2)
    /\ Bounded(be')
    /\ snap' = Follow(snap, be'.state.board, Locks(be') # Locks(be))
    /\ UNCHANGED <<gc, now, mineVars, tileVars, pureVars>>

\* Time passes between two events.
Elapse ==
    /\ now + TimeStep <= MaxTime
    /\ now' = now + TimeStep
    /\ UNCHANGED <<gc, be, snap, mineVars, tileVars, pureVars>>

BlockStart == start
BlockPause == pause
BlockResume == resume
BlockRestart == blockRestart
BlockHandleInput == \E action \in InputActions : handleInput(action)
BlockGameLoop == gameLoop
BlockElapse == Elapse

BlockNext ==
    \/ BlockStart
    \/ BlockPause
    \/ BlockResume
    \/ BlockRestart
    \/ BlockHandleInput
    \/ BlockGameLoop
    \/ BlockElapse

SpecBlock == BlockInit /\ [][BlockNext]_vars

\* ---- the tetris module: keys to engine commands --------------------------

\* Keys the player presses (lower-cased): one key for each binding, the
\* letter keys a, d, s, w and "spacebar" being second bindings of the same
\* actions; "x" stands for every key without a binding.
Keys == {"arrowleft", "arrowright", "arrowdown", "arrowup", " ", "p", "r", "x"}

\* getActionFromKey: the action bound to a key, "null" for none.
getActionFromKey(key) ==
    CASE key \in {"arrowleft", "a"} -> "move-left"
      [] key \in {"arrowright", "d"} -> "move-right"
      [] key \in {"arrowdown", "s"} -> "move-down"
      [] key \in {"arrowup", "w"} -> "rotate"
      [] key \in {" ", "spacebar"} -> "hard-drop"
      [] key = "p" -> "pause"
      [] key = "r" -> "restart"
      [] OTHER -> "null"

\* TetrisGame.handleInput(action): the switch, followed by the block that
\* handles "pause" once more.
moduleHandleInput(e, action, clock, t1, t2) ==
    LET switched ==
            CASE action \in InputActions ->
                     handleInputResult(e, action, t1, t2)
              [] action = "pause" ->
                     IF e.state.status = "playing" THEN pauseResult(e) ELSE e
              [] action = "resume" ->
                     IF e.state.status = "paused"
                     THEN resumeResult(e, clock) ELSE e
              [] action = "restart" ->
                     startResult(restartResult(e), clock, t1, t2)
              [] OTHER -> e
    IN  IF action # "pause" THEN switched
        ELSE IF switched.state.status = "paused"
             THEN resumeResult(switched, clock)
        ELSE IF switched.state.status = "playing"
             THEN pauseResult(switched)
        ELSE switched

\* The draws a key press makes.
KeyDraws(e, action) ==
    IF action = "restart" THEN SpawnTypes \X SpawnTypes
    ELSE IF action \in InputActions
         THEN FirstDraws(e) \X InputDraws(e, action)
    ELSE {<<"I", "I">>}

\* TetrisGame.mount: a new engine, started at once.
ModuleInit ==
    /\ \E t1 \in SpawnTypes, t2 \in SpawnTypes :
          be = startResult([state |-> tetrisInitialState(BlockConfig),
                            gameLoopId |-> "null"], 0, t1, t2)
    /\ now = 0
    /\ snap = NoSnap
    /\ ShellOff
    /\ MineOff /\ TileOff /\ PureOff

keyDown(key) ==
    /\ getActionFromKey(key) # "null"
    /\ \E d \in KeyDraws(be, getActionFromKey(key)) :
          be' = moduleHandleInput(be, getActionFromKey(key), now, d[1], d[2])
    /\ Bounded(be')
    /\ snap' = snap
    /\ UNCHANGED <<gc, now, mineVars, tileVars, pureVars>>

ModuleKeyDown == \E key \in Keys : keyDown(key)
ModuleGameLoop == gameLoop
ModuleElapse == Elapse

ModuleNext ==
    \/ ModuleKeyDown
    \/ ModuleGameLoop
    \/ ModuleElapse

SpecModule == ModuleInit /\ [][ModuleNext]_vars


\* ---- one command on a position in mid-game ------------------------------
\* The inputs are engines in play: a stack of at most MaxStack rows, none
\* empty and none complete, under empty rows; a current piece wherever it
\* fits; a next piece.  The row at level j of the stack is filled with
\* FillTypes[j], so that rows are told apart.

MaxStack == 3
FillTypes == <<"I", "O", "T", "S", "Z", "J", "L">>
\* The type of the waiting piece, and of the one drawn after a lock.
NextTypes == {"O"}

RowMasks(width) ==
    { m \in SUBSET (1 .. width) : m # {} /\ m # 1 .. width }

StackBoards(width, height) ==
    UNION { { [y \in 1 .. height |->
                [x \in 1 .. width |->
                   IF y > height - k /\ x \in f[height + 1 - y]
                   THEN FillTypes[height + 1 - y] ELSE "null"]] :
              f \in [1 .. k -> RowMasks(width)] } :
            k \in 0 .. Min(MaxStack, height) }

PiecesOn(board) ==
    UNION { { p \in { [type |-> t,
                       position |-> [x |-> x, y |-> y],
                       rotation |-> r,
                       shape |-> PIECE_SHAPES[t][r + 1]] :
                       r \in 0 .. Len(PIECE_SHAPES[t]) - 1,
                       x \in -2 .. Len(board[1]) - 1,
                       y \in -2 .. Len(board) - 1 } :
                canPlacePiece(board, p, p.position) } :
            t \in PieceTypes }

InPlay(board, piece, nextType) ==
    [state |-> [tetrisInitialState(BlockConfig) EXCEPT
                  !.status = "playing",
                  !.canPause = TRUE,
                  !.board = board,
                  !.currentPiece = piece,
                  !.nextPiece = createPiece(nextType, BlockConfig.boardWidth)],
     gameLoopId |-> "pending"]

\* Highest level of a drawn game.
MaxLevel == 3

\* Boards whose k bottom rows are complete but for one column, the same in
\* every row.
WellBoards(width, height) ==
    { [y \in 1 .. height |->
         [x \in 1 .. width |->
            IF y > height - k /\ x # c
            THEN FillTypes[height + 1 - y] ELSE "null"]] :
        k \in 0 .. height, c \in 1 .. width }

\* The engine e as it is once its game has reached the given level by
\* clearing one row at a time: linesPerLevel rows per level, each paid
\* SINGLE times the level it was cleared at.
AtLevel(e, level) ==
    [e EXCEPT
       !.state.level = level,
       !.state.lines = (level - 1) * BlockConfig.linesPerLevel,
       !.state.score = SCORE_VALUES.SINGLE * BlockConfig.linesPerLevel
                          * ((level * (level - 1)) \div 2),
       !.state.dropSpeed =
           IF level = 1 THEN BlockConfig.initialSpeed
           ELSE calculateDropSpeed(level, BlockConfig.initialSpeed,
                                   BlockConfig.speedIncrease)]

PieceInit ==
    /\ \/ \E board \in StackBoards(BlockConfig.boardWidth, BlockConfig.boardHeight) :
            \E piece \in PiecesOn(board), nextType \in NextTypes :
              pin = [kind |-> "engine", e |-> InPlay(board, piece, nextType)]
       \/ \E board \in WellBoards(BlockConfig.boardWidth, BlockConfig.boardHeight) :
            \E piece \in PiecesOn(board), nextType \in NextTypes,
               level \in 1 .. MaxLevel :
              pin = [kind |-> "engine",
                     e |-> AtLevel(InPlay(board, piece, nextType), level)]
    /\ pout = [kind |-> "none"]
    /\ snap = NoSnap
    /\ ShellOff
    /\ MineOff /\ TileOff /\ BlockOff

PieceInput(action) ==
    /\ pin.kind = "engine"
    /\ \E t2 \in NextTypes :
         pout' = [kind |-> action,
                  e |-> handleInputResult(pin.e, action, "I", t2)]
    /\ UNCHANGED <<gc, pin, snap, mineVars, tileVars, blockVars>>

PieceMoveDown == PieceInput("move-down")
PieceRotate == PieceInput("rotate")
PieceHardDrop == PieceInput("hard-drop")

PieceNext ==
    \/ PieceMoveDown
    \/ PieceRotate
    \/ PieceHardDrop

SpecPiece == PieceInit /\ [][PieceNext]_vars


\* ---- tetris properties ---------------------------------------------------

\* The board cells, as <<row, column>> counted from 0, that a shape matrix
\* covers when its top-left corner is at column x, row y.
ShapeCells(shape, x, y) ==
    { <<y + c[1] - 1, x + c[2] - 1>> :
        c \in { d \in (1 .. Len(shape)) \X (1 .. Len(shape[1])) :
                  shape[d[1]][d[2]] = 1 } }

\* A position is valid: every covered cell is on the board and empty.
Fits(board, shape, x, y) ==
    \A c \in ShapeCells(shape, x, y) :
        /\ c[1] \in 0 .. Len(board) - 1
        /\ c[2] \in 0 .. Len(board[1]) - 1
        /\ board[c[1] + 1][c[2] + 1] = "null"

\* The positions a rotation tries, in order, as <<dx, dy>>.
RotationCandidates ==
    << <<0, 0>>, <<-1, 0>>, <<1, 0>>, <<0, -1>>, <<-1, -1>>, <<1, -1>> >>

\* The candidates at which the next rotation state of the piece fits.
FittingCandidates(st) ==
    LET piece == st.currentPiece
        states == PIECE_SHAPES[piece.type]
        shape == states[((piece.rotation + 1) % Len(states)) + 1]
    IN  { i \in 1 .. Len(RotationCandidates) :
            Fits(st.board, shape,
                 piece.position.x + RotationCandidates[i][1],
                 piece.position.y + RotationCandidates[i][2]) }

SetMin(S) == CHOOSE i \in S : \A j \in S : i <= j

\* C3: rotate replaces the current piece by its next rotation state at the
\* first position, among the original one and the offsets (-1,0), (1,0),
\* (0,-1), (-1,-1), (1,-1) in that order, where it fits; when it fits at
\* none, the piece and the rest of the engine are unchanged.
C3_RotateTakesFirstFit ==
    pout.kind = "rotate" =>
      LET st == pin.e.state
          piece == st.currentPiece
          states == PIECE_SHAPES[piece.type]
          rotation == (piece.rotation + 1) % Len(states)
          fitting == FittingCandidates(st)
      IN  IF fitting = {} THEN pout.e = pin.e
          ELSE LET d == RotationCandidates[SetMin(fitting)]
               IN  pout.e =
                     [pin.e EXCEPT !.state.currentPiece =
                        [type |-> piece.type,
                         position |-> [x |-> piece.position.x + d[1],
                                       y |-> piece.position.y + d[2]],
                         rotation |-> rotation,
                         shape |-> states[rotation + 1]]]

\* A rotation that fits only at the last offset, (1,-1), has been made.
C3_Witness ==
    /\ pout.kind = "rotate"
    /\ FittingCandidates(pin.e.state) = {Len(RotationCandidates)}
    /\ pout.e.state.currentPiece.rotation # pin.e.state.currentPiece.rotation
    /\ pout.e.state.currentPiece.position.y = pin.e.state.currentPiece.position.y - 1

\* The row at which the current piece comes to rest when it falls straight.
LandingY(st) ==
    LET piece == st.currentPiece
    IN  CHOOSE y \in piece.position.y .. Len(st.board) :
          /\ \A z \in piece.position.y .. y :
                Fits(st.board, piece.shape, piece.position.x, z)
          /\ ~Fits(st.board, piece.shape, piece.position.x, y + 1)

\* The board with the current piece written into it at row y.
Locked(st, y) ==
    LET piece == st.currentPiece
        cells == ShapeCells(piece.shape, piece.position.x, y)
    IN  [r \in 1 .. Len(st.board) |->
           [x \in 1 .. Len(st.board[1]) |->
              IF <<r - 1, x - 1>> \in cells THEN piece.type ELSE st.board[r][x]]]

CompleteRows(board) ==
    { r \in 1 .. Len(board) : \A x \in 1 .. Len(board[r]) : board[r][x] # "null" }

\* The board on which the command recorded in pout locked its piece; the
\* empty sequence when the command locked nothing.
LockedBoard ==
    IF pout.kind = "hard-drop"
    THEN Locked(pin.e.state, LandingY(pin.e.state))
    ELSE IF /\ pout.kind = "move-down"
            /\ LandingY(pin.e.state) = pin.e.state.currentPiece.position.y
    THEN Locked(pin.e.state, pin.e.state.currentPiece.position.y)
    ELSE <<>>

\* C7: when a locked piece completes k >= 1 rows, the board keeps its
\* dimensions, its top k rows are empty, and every row that was not complete
\* is found, unchanged, as many rows lower as there were complete rows
\* below it: exactly the complete rows are gone and the others keep their
\* order.
C7_LockRemovesCompleteRows ==
    LET locked == LockedBoard
        full == CompleteRows(locked)
        k == Cardinality(full)
        board == pout.e.state.board
    IN  (locked # <<>> /\ k >= 1) =>
          /\ Len(board) = Len(locked)
          /\ \A r \in 1 .. Len(board) : Len(board[r]) = Len(locked[r])
          /\ \A r \in 1 .. k : \A x \in 1 .. Len(board[r]) : board[r][x] = "null"
          /\ \A r \in (1 .. Len(locked)) \ full :
                board[r + Cardinality({f \in full : f > r})] = locked[r]

\* A hard drop has completed two rows under a row that stays.
C7_Witness ==
    /\ pout.kind = "hard-drop"
    /\ Cardinality(CompleteRows(LockedBoard)) = 2
    /\ \E r \in 1 .. Len(LockedBoard) :
          /\ r \notin CompleteRows(LockedBoard)
          /\ \E f \in CompleteRows(LockedBoard) : f > r
          /\ \E x \in 1 .. Len(LockedBoard[r]) : LockedBoard[r][x] # "null"

\* ---- the engine's commands, seen from the state they start in -----------

\* What each command and the frame callback may leave when run on engine e
\* at time clock; the callback only runs while a frame is requested.
BlockCommands(e, clock) ==
    { [cmd |-> "start", e |-> startResult(e, clock, t1, t2)] :
          t1 \in FirstDraws(e), t2 \in SpawnTypes }
    \cup { [cmd |-> "pause", e |-> pauseResult(e)],
           [cmd |-> "resume", e |-> resumeResult(e, clock)],
           [cmd |-> "restart", e |-> restartResult(e)] }
    \cup UNION { { [cmd |-> "input", e |-> handleInputResult(e, action, t1, t2)] :
                       t1 \in FirstDraws(e), t2 \in InputDraws(e, action) } :
                 action \in InputActions }
    \cup (IF e.gameLoopId = "pending"
          THEN { [cmd |-> "tick", e |-> gameLoopResult(e, clock, t1, t2)] :
                     t1 \in FirstDraws(e), t2 \in LoopDraws(e, clock) }
          ELSE {})

PieceFits(st) ==
    Fits(st.board, st.currentPiece.shape,
         st.currentPiece.position.x, st.currentPiece.position.y)

\* The piece is where createPiece puts a new piece of its type.
AtSpawn(piece) ==
    /\ piece.rotation = 0
    /\ piece.shape = PIECE_SHAPES[piece.type][1]
    /\ piece.position =
          [x |-> (BlockConfig.boardWidth - Len(piece.shape[1])) \div 2, y |-> 0]

\* C16: in status playing or paused there is a current piece and it covers
\* only empty cells of the board; a current piece that does not is the
\* freshly spawned piece of a lost game.
C16_CurrentPieceFits ==
    be.state.status # "off" =>
        /\ be.state.status \in {"playing", "paused"} =>
              be.state.currentPiece # NoPiece /\ PieceFits(be.state)
        /\ (be.state.currentPiece # NoPiece /\ ~PieceFits(be.state)) =>
              be.state.status = "lost" /\ AtSpawn(be.state.currentPiece)

\* A paused game whose piece has been turned and has gone down over a board
\* that holds locked cells.
C16_Witness ==
    /\ be.state.status = "paused"
    /\ be.state.currentPiece.rotation # 0
    /\ be.state.currentPiece.position.y >= 1
    /\ CountCells(be.state.board) > 0

\* The command that led from e to r spawned a piece: it started the game or
\* locked a piece.
Spawned(e, r) ==
    /\ r.state.status # "idle"
    /\ e.state.status = "idle" \/ Locks(r) # Locks(e)

\* C17: a command sets the status to lost only by spawning a piece that does
\* not fit, and every command that spawns a piece that does not fit sets it.
C17_LostIffSpawnFails ==
    be.state.status # "off" =>
        \A c \in BlockCommands(be, now) :
            /\ (c.e.state.status = "lost" /\ be.state.status # "lost") =>
                  /\ Spawned(be, c.e)
                  /\ AtSpawn(c.e.state.currentPiece)
                  /\ ~PieceFits(c.e.state)
            /\ Spawned(be, c.e) =>
                  (c.e.state.status = "lost" <=> ~PieceFits(c.e.state))

\* A game in play from which some command spawns a piece that does not fit.
C17_Witness ==
    /\ be.state.status = "playing"
    /\ \E c \in BlockCommands(be, now) :
          Spawned(be, c.e) /\ c.e.state.status = "lost"

\* C18: the status changes only from idle to playing by start, from playing
\* to paused by pause, from paused to playing by resume, from playing to
\* lost by a command that spawns, and to idle by restart; start outside
\* idle, pause outside playing and resume outside paused change nothing;
\* restart leaves the initial board, pieces, score, level, lines and speed.
C18_StatusTransitions ==
    be.state.status # "off" =>
        \A c \in BlockCommands(be, now) :
            LET from == be.state.status
                to == c.e.state.status
            IN  /\ \/ to = from
                   \/ c.cmd = "start" /\ from = "idle" /\ to = "playing"
                   \/ c.cmd = "pause" /\ from = "playing" /\ to = "paused"
                   \/ c.cmd = "resume" /\ from = "paused" /\ to = "playing"
                   \/ c.cmd \in {"input", "tick"} /\ from = "playing" /\ to = "lost"
                   \/ c.cmd = "restart" /\ to = "idle"
                /\ (c.cmd = "start" /\ from # "idle") => c.e = be
                /\ (c.cmd = "pause" /\ from # "playing") => c.e = be
                /\ (c.cmd = "resume" /\ from # "paused") => c.e = be
                /\ c.cmd = "restart" =>
                      /\ to = "idle"
                      /\ \A y \in 1 .. BlockConfig.boardHeight :
                           \A x \in 1 .. BlockConfig.boardWidth :
                             c.e.state.board[y][x] = "null"
                      /\ c.e.state.currentPiece = NoPiece
                      /\ c.e.state.nextPiece = NoPiece
                      /\ c.e.state.score = 0
                      /\ c.e.state.level = 1
                      /\ c.e.state.lines = 0
                      /\ c.e.state.dropSpeed = BlockConfig.initialSpeed

\* A lost game with points and a filled board, which restart resets.
C18_Witness ==
    /\ be.state.status = "lost"
    /\ be.state.score > 0
    /\ CountCells(be.state.board) > 0

\* The fields a paused game must keep.
Play(st) ==
    <<st.board, st.currentPiece, st.nextPiece, st.score, st.level, st.lines>>

\* The times the clock can show.
Clocks == { k * TimeStep : k \in 0 .. MaxTime \div TimeStep }

\* C19: pause changes the status only; in status paused neither the frame
\* callback nor any input changes board, pieces, score, level or lines; and
\* after resume at time now the frame callback moves nothing before
\* now + dropSpeed, inputs leaving the drop timer alone.
C19_PauseHaltsDescent ==
    be.state.status # "off" =>
        /\ be.state.status = "playing" =>
              pauseResult(be).state = [be.state EXCEPT !.status = "paused"]
        /\ be.state.status = "paused" =>
              /\ be.gameLoopId # "pending"
              /\ \A t \in SpawnTypes :
                    Play(gameLoopResult(be, now, t, t).state) = Play(be.state)
              /\ \A action \in InputActions : \A t \in SpawnTypes :
                    Play(handleInputResult(be, action, t, t).state) = Play(be.state)
              /\ LET r == resumeResult(be, now)
                 IN  /\ r.state.status = "playing"
                     /\ \A clock \in Clocks : \A t \in SpawnTypes :
                          (clock >= now /\ clock < now + r.state.dropSpeed) =>
                              Play(gameLoopResult(r, clock, t, t).state) = Play(r.state)
        /\ \A action \in InputActions : \A t \in SpawnTypes :
              handleInputResult(be, action, t, t).state.lastDropTime
                  = be.state.lastDropTime

\* A game paused for so long that a descent would be due were it in play.
C19_Witness ==
    /\ be.state.status = "paused"
    /\ now - be.state.lastDropTime >= be.state.dropSpeed
    /\ CountCells(be.state.board) > 0

\* C20: the frame callback of a game in play, once dropSpeed has passed
\* since lastDropTime, moves the piece one row down if it fits there, and
\* otherwise locks it where it is, removes the complete rows and makes the
\* next piece current, all in the same call; before that it changes nothing.
C20_TickDescendsOrLocks ==
    (be.state.status = "playing" /\ be.state.currentPiece # NoPiece) =>
        \A t1 \in FirstDraws(be), t2 \in LoopDraws(be, now) :
            LET st == be.state
                piece == st.currentPiece
                r == gameLoopResult(be, now, t1, t2).state
            IN  IF now - st.lastDropTime >= st.dropSpeed
                THEN IF Fits(st.board, piece.shape,
                             piece.position.x, piece.position.y + 1)
                     THEN r = [st EXCEPT
                                 !.currentPiece.position.y = @ + 1,
                                 !.lastDropTime = now]
                     ELSE /\ r.board =
                               clearCompleteLines(
                                   Locked(st, piece.position.y)).newBoard
                          /\ r.currentPiece = st.nextPiece
                          /\ r.nextPiece = createPiece(t2, BlockConfig.boardWidth)
                          /\ r.lastDropTime = now
                ELSE r = st

\* A frame is requested for a game in play whose piece rests on the stack
\* and whose descent is due: the callback will lock it.
C20_Witness ==
    /\ be.state.status = "playing"
    /\ be.gameLoopId = "pending"
    /\ now - be.state.lastDropTime >= be.state.dropSpeed
    /\ now > 0
    /\ ~Fits(be.state.board, be.state.currentPiece.shape,
             be.state.currentPiece.position.x,
             be.state.currentPiece.position.y + 1)
    /\ CountCells(be.state.board) > 0

\* The points a lock pays per level for k completed rows.
ClearAward(k) ==
    CASE k = 0 -> 0
      [] k = 1 -> 100
      [] k = 2 -> 300
      [] k = 3 -> 500
      [] k = 4 -> 800

\* C21: a hard drop takes the piece straight down to the lowest row it
\* reaches by one-row descents that fit, adds 2 points per row descended,
\* and in the same command locks it there, removes the complete rows and
\* makes the waiting piece current.
C21_HardDropLandsAndLocks ==
    pout.kind = "hard-drop" =>
      LET st == pin.e.state
          y == LandingY(st)
          locked == Locked(st, y)
          k == Cardinality(CompleteRows(locked))
          r == pout.e.state
      IN  /\ r.board = clearCompleteLines(locked).newBoard
          /\ r.score = st.score + 2 * (y - st.currentPiece.position.y)
                          + ClearAward(k) * st.level
          /\ r.currentPiece = st.nextPiece
          /\ r.nextPiece # NoPiece

\* A hard drop of two rows or more onto a stack.
C21_Witness ==
    /\ pout.kind = "hard-drop"
    /\ LandingY(pin.e.state) >= pin.e.state.currentPiece.position.y + 2
    /\ CountCells(pin.e.state.board) > 0
    /\ pout.e.state.score >= pin.e.state.score + 4

\* C22: a lock that completes k rows adds 100, 300, 500 or 800 times the
\* level in force before the lock for k = 1, 2, 3, 4 and nothing for k = 0,
\* on top of the points of the drop that led to it; at one level four rows
\* pay more than three, and three more than two.
C22_LockAwardsByRows ==
    LockedBoard # <<>> =>
      LET st == pin.e.state
          k == Cardinality(CompleteRows(LockedBoard))
          drop == IF pout.kind = "hard-drop"
                  THEN 2 * (LandingY(st) - st.currentPiece.position.y)
                  ELSE 0
      IN  /\ pout.e.state.score = st.score + drop + ClearAward(k) * st.level
          /\ calculateScore(4, st.level, "none") > calculateScore(3, st.level, "none")
          /\ calculateScore(3, st.level, "none") > calculateScore(2, st.level, "none")

\* A lock at level 2 has completed four rows at once.
C22_Witness ==
    /\ LockedBoard # <<>>
    /\ Cardinality(CompleteRows(LockedBoard)) = 4
    /\ pin.e.state.level = 2
    /\ pout.e.state.score = pin.e.state.score + 1600

\* C28: in status playing or paused a next piece is waiting, as createPiece
\* makes it; every command that locks a piece makes the piece that was
\* waiting before it the current piece and leaves a newly made piece
\* waiting.
C28_NextPieceBecomesCurrent ==
    be.state.status # "off" =>
        /\ be.state.status \in {"playing", "paused"} =>
              be.state.nextPiece # NoPiece /\ AtSpawn(be.state.nextPiece)
        /\ \A c \in BlockCommands(be, now) :
              (be.state.status # "idle" /\ Spawned(be, c.e)) =>
                  /\ c.e.state.currentPiece.type = be.state.nextPiece.type
                  /\ c.e.state.currentPiece = be.state.nextPiece
                  /\ c.e.state.nextPiece # NoPiece
                  /\ AtSpawn(c.e.state.nextPiece)
                  /\ c.e.state.nextPiece.type \in SpawnTypes

\* A game in play after a lock, with a current piece of another type than
\* the one waiting and than the one a fresh draw of "I" would give.
C28_Witness ==
    /\ be.state.status = "playing"
    /\ Locks(be) >= 1
    /\ be.state.currentPiece.type # be.state.nextPiece.type
    /\ be.state.currentPiece.type # "I"

\* C39: between commands no row of the board is completely filled, and a
\* lock made by a tick, a soft drop or a hard drop leaves none behind.
C39_NoCompleteRowRemains ==
    be.state.status # "off" =>
        /\ CompleteRows(be.state.board) = {}
        /\ \A c \in BlockCommands(be, now) :
              CompleteRows(c.e.state.board) = {}

\* A lock has completed a row and the row is gone, with cells of an earlier
\* lock left on the board.
C39_Witness ==
    /\ be.state.lines >= 1
    /\ Locks(be) >= 2
    /\ \E y \in 1 .. Len(be.state.board) :
          \E x \in 1 .. Len(be.state.board[y]) : be.state.board[y][x] # "null"

\* C40: level is floor(lines / linesPerLevel) + 1 with lines the rows cleared
\* since the last restart, no command but restart lowers the level or the
\* line count, and restart sets them back to level 1 and no lines.
C40_LevelFollowsLines ==
    be.state.status # "off" =>
        /\ be.state.level = (be.state.lines \div BlockConfig.linesPerLevel) + 1
        /\ \A c \in BlockCommands(be, now) :
              IF c.cmd = "restart"
              THEN c.e.state.level = 1 /\ c.e.state.lines = 0
              ELSE /\ c.e.state.level >= be.state.level
                   /\ c.e.state.lines >= be.state.lines
                   /\ c.e.state.level =
                        (c.e.state.lines \div BlockConfig.linesPerLevel) + 1

\* The second level has been reached by clearing linesPerLevel rows.
C40_Witness ==
    /\ be.state.level = 2
    /\ be.state.lines = BlockConfig.linesPerLevel

\* C36: the key bound to "pause" leaves a playing engine paused and a paused
\* engine playing.
C36_PauseKeyToggles ==
    be.state.status \in {"playing", "paused"} =>
        LET r == moduleHandleInput(be, getActionFromKey("p"), now, "I", "I")
        IN  /\ be.state.status = "playing" => r.state.status = "paused"
            /\ be.state.status = "paused" => r.state.status = "playing"


(***************************************************************************)
(*                      THE OBJECT getState() RETURNS                      *)
(***************************************************************************)
\* One engine is built; a caller asks for its state, keeps the returned
\* object and assigns to it between the commands of the game.

\* The engine that was built.
Alive ==
    IF ms.status # "off" THEN "mine"
    ELSE IF ts.status # "off" THEN "tile" ELSE "block"

\* The fields of the state object the engine holds (the 2048 history is a
\* field of the state manager, not of its state).
EngineState ==
    CASE Alive = "mine" -> ms
      [] Alive = "tile" ->
           [status |-> ts.status, board |-> ts.board, score |-> ts.score,
            canUndo |-> ts.canUndo, moveCount |-> ts.moveCount,
            highestTile |-> ts.highestTile]
      [] Alive = "block" -> be.state

\* What an assignment to the first cell of a board leaves: the caller marks
\* a minesweeper cell revealed, sets a 2048 cell's value, or fills a tetris
\* cell.
WrittenBoard(board) ==
    CASE Alive = "mine" -> [board EXCEPT ![<<0, 0>>].state = "revealed"]
      [] Alive = "tile" -> [board EXCEPT ![<<0, 0>>] = 2]
      [] Alive = "block" -> [board EXCEPT ![1][1] = "I"]

\* The engines after the caller has assigned to the first cell of the board
\* of the object s: the assignment lands in the engine's board while the
\* two are one array.
AfterCellWrite(s) ==
    [ms |-> IF s.shared /\ Alive = "mine"
            THEN [ms EXCEPT !.board = WrittenBoard(@)] ELSE ms,
     ts |-> IF s.shared /\ Alive = "tile"
            THEN [ts EXCEPT !.board = WrittenBoard(@)] ELSE ts,
     be |-> IF s.shared /\ Alive = "block"
            THEN [be EXCEPT !.state.board = WrittenBoard(@)] ELSE be,
     snap |-> [s EXCEPT !.view.board = WrittenBoard(@)]]

\* Most moves of a 2048 game in this specification.
SnapMoves == 2

\* The minesweeper configuration of this specification.
SnapConfig == [rows |-> 2, cols |-> 3, mines |-> 1]

SnapInit ==
    \/ /\ ms = createInitialState(SnapConfig)
       /\ mret = "none"
       /\ snap = NoSnap
       /\ ShellOff
       /\ TileOff /\ BlockOff /\ PureOff
    \/ TileInit /\ trng = "zero"
    \/ BlockInit

getState ==
    /\ snap' = TakeSnap(EngineState)
    /\ UNCHANGED <<gc, mineVars, tileVars, blockVars, pureVars>>

\* snapshot.status = "lost"
snapWriteField ==
    /\ snap.taken
    /\ snap' = [snap EXCEPT !.view.status = "lost"]
    /\ UNCHANGED <<gc, mineVars, tileVars, blockVars, pureVars>>

\* snapshot.board[0][0] = ... (or a field of that cell)
snapWriteCell ==
    /\ snap.taken
    /\ LET r == AfterCellWrite(snap)
       IN  /\ ms' = r.ms
           /\ ts' = r.ts
           /\ be' = r.be
           /\ snap' = r.snap
    /\ UNCHANGED <<gc, mret, tret, trng, now, pureVars>>

SnapGetState == getState
SnapWriteField == snapWriteField
SnapWriteCell == snapWriteCell
\* The commands played between the caller's steps.
SnapMineLeftClick == Alive = "mine" /\ MineLeftClick
SnapMineRestart == Alive = "mine" /\ MineRestart
SnapTileStartNewGame == Alive = "tile" /\ TileStartNewGame
SnapTileMove == Alive = "tile" /\ ts.moveCount < SnapMoves /\ TileMove
SnapTileUndo == Alive = "tile" /\ TileUndo
SnapBlockStart == Alive = "block" /\ BlockStart
SnapBlockRestart == Alive = "block" /\ BlockRestart
SnapBlockDrop == Alive = "block" /\ handleInput("hard-drop")

SnapNext ==
    \/ SnapGetState
    \/ SnapWriteField
    \/ SnapWriteCell
    \/ SnapMineLeftClick
    \/ SnapMineRestart
    \/ SnapTileStartNewGame
    \/ SnapTileMove
    \/ SnapTileUndo
    \/ SnapBlockStart
    \/ SnapBlockRestart
    \/ SnapBlockDrop

SpecSnap == SnapInit /\ [][SnapNext]_vars

\* ---- properties of the returned object ----------------------------------

\* Every registered listener.
AllListeners == { Listeners[i] : i \in 1 .. Len(Listeners) }

\* C30: whatever changes an engine's game state notifies every registered
\* listener: a minesweeper reveal, continueGame in 2048, and in tetris the
\* frame callback when it moves the piece down or locks it.
C30_EveryChangeNotifies ==
    /\ ms.status # "off" =>
          \A p \in Cells(ms.config) :
            \A positions \in (IF ms.status = "idle"
                               THEN minePositions(ms.config, p[1], p[2])
                               ELSE {{}}) :
              LET r == revealCellNotified(ms, p[1], p[2], positions)
              IN  r.st # ms =>
                    { r.notes[i].listener : i \in 1 .. Len(r.notes) } = AllListeners
    /\ ts.status # "off" =>
          (continueResult(ts) # ts =>
              { continueNotified(ts)[i] : i \in 1 .. Len(continueNotified(ts)) }
                  = AllListeners)
    /\ (be.state.status # "off" /\ be.gameLoopId = "pending") =>
          \A clock \in Clocks :
            \A t1 \in FirstDraws(be), t2 \in LoopDraws(be, clock) :
              LET r == gameLoopResult(be, clock, t1, t2).state
              IN  <<Play(r), r.status>> # <<Play(be.state), be.state.status>> =>
                    gameLoopEvents(be, clock, t1, t2) # <<>>


\* C10: getState() returns a defensive copy: an assignment to the returned
\* object, here to the first cell of its board, leaves the state the engine
\* holds as it was.
C10_WriteToSnapshotLeavesEngine ==
    snap.taken =>
      LET r == AfterCellWrite(snap)
      IN  r.ms = ms /\ r.ts = ts /\ r.be = be

(***************************************************************************)
(*                        PLATFORM: GAME CONTAINER                         *)
(***************************************************************************)

\* The games registered with the registry.
GameIds == {"minesweeper", "2048", "tetris"}

\* Most mountGame calls suspended at their await at one time.
MaxPending == 2

\* new GameContainerImpl(container).  mounted holds the modules whose mount()
\* has been called since their last unmount() (the registry hands out one
\* module per game id); pending holds the game ids of the mountGame calls
\* suspended at `await gameRegistry.getGame`, oldest first; html is the kind
\* of content of the container element.
containerInitial ==
    [currentGame |-> "null",
     currentGameId |-> "null",
     mounted |-> {},
     pending |-> <<>>,
     html |-> "empty"]

unmountCurrentGame(c) ==
    IF c.currentGame # "null"
    THEN [c EXCEPT !.mounted = @ \ {c.currentGame},
                   !.currentGame = "null",
                   !.currentGameId = "null",
                   !.html = "empty"]
    ELSE [c EXCEPT !.html = "empty"]

destroy(c) == unmountCurrentGame(c)

\* mountGame(gameId) up to its await: the current game, if any, is
\* unmounted, the loading view is shown and the call waits for the registry.
mountGameCall(c, gameId) ==
    LET u == IF c.currentGame # "null" THEN unmountCurrentGame(c) ELSE c
    IN  [u EXCEPT !.html = "loading", !.pending = Append(@, gameId)]

RemoveAt(seq, i) == SubSeq(seq, 1, i - 1) \o SubSeq(seq, i + 1, Len(seq))

\* The i-th suspended mountGame continues with the loaded module: the
\* container is emptied, the module is mounted and becomes the current game.
mountGameLoaded(c, i) ==
    LET game == c.pending[i]
    IN  [c EXCEPT !.html = "game",
                  !.mounted = @ \cup {game},
                  !.currentGame = game,
                  !.currentGameId = game,
                  !.pending = RemoveAt(@, i)]

\* The i-th suspended mountGame continues in its catch block (the load
\* failed or timed out).
mountGameFailed(c, i) ==
    [c EXCEPT !.currentGame = "null",
              !.currentGameId = "null",
              !.html = "error",
              !.pending = RemoveAt(@, i)]

\* Two loads of the same game share the registry's promise or its cached
\* module, so they complete in the order of their calls; loads of different
\* games complete in any order.
CanResume(c, i) ==
    /\ i \in 1 .. Len(c.pending)
    /\ \A j \in 1 .. i - 1 : c.pending[j] # c.pending[i]

ShellInit ==
    /\ gc = containerInitial
    /\ snap = NoSnap
    /\ MineOff /\ TileOff /\ BlockOff /\ PureOff

ShellMountGame ==
    /\ Len(gc.pending) < MaxPending
    /\ \E gameId \in GameIds : gc' = mountGameCall(gc, gameId)
    /\ UNCHANGED <<snap, mineVars, tileVars, blockVars, pureVars>>

ShellLoaded ==
    /\ \E i \in 1 .. Len(gc.pending) :
          CanResume(gc, i) /\ gc' = mountGameLoaded(gc, i)
    /\ UNCHANGED <<snap, mineVars, tileVars, blockVars, pureVars>>

ShellLoadFailed ==
    /\ \E i \in 1 .. Len(gc.pending) :
          CanResume(gc, i) /\ gc' = mountGameFailed(gc, i)
    /\ UNCHANGED <<snap, mineVars, tileVars, blockVars, pureVars>>

ShellUnmount ==
    /\ gc' \in {unmountCurrentGame(gc), destroy(gc)}
    /\ UNCHANGED <<snap, mineVars, tileVars, blockVars, pureVars>>

ShellNext ==
    \/ ShellMountGame
    \/ ShellLoaded
    \/ ShellLoadFailed
    \/ ShellUnmount

SpecShell == ShellInit /\ [][ShellNext]_vars

\* ---- container properties -----------------------------------------------

\* C33: whatever the interleaving of mountGame, its continuations and
\* unmountCurrentGame/destroy, at most one module is mounted, it is the one
\* currentGame refers to (none when currentGame is null), and once
\* unmountCurrentGame has returned no suspended mountGame can mount a module.
C33_AtMostOneMounted ==
    gc.currentGame # "off" =>
        /\ Cardinality(gc.mounted) <= 1
        /\ gc.mounted = (IF gc.currentGame = "null" THEN {}
                         ELSE {gc.currentGame})
        /\ LET u == unmountCurrentGame(gc)
           IN  /\ u.mounted = {}
               /\ \A i \in 1 .. Len(u.pending) :
                     CanResume(u, i) => mountGameLoaded(u, i).mounted = {}

====
